---- MODULE Spec2Model ----
(***************************************************************************)
(* The copyright status/expiry scheduler (src/src/scheduler.py), its data  *)
(* records (src/src/data_models.py), the current-date provider             *)
(* (src/src/date_provider.py) and the storage operations the scheduler     *)
(* calls (src/src/database.py).                                            *)
(*                                                                         *)
(* Encoding of Python values:                                              *)
(*   None (for a date or an object)  the empty tuple <<>>                  *)
(*   date(y, m, d)                   the tuple <<y, m, d>>                 *)
(*   an Optional[Jurisdiction]       <<>> or the one-element tuple <<j>>   *)
(*   an Optional[int]                <<>> or the one-element tuple <<n>>   *)
(*   an absent string (None or "")   ""   (the code tests only truthiness) *)
(*   an absent id (None or 0)        0    (the code tests only truthiness) *)
(*   a text that the code inspects   a tuple of one-character strings      *)
(*   a dict                          a function on the set of its keys     *)
(*                                                                         *)
(* SpecExpiry applies the expiry functions, SpecStatus applies             *)
(* determine_status, each to inputs drawn by its initial condition; Spec   *)
(* is the scheduler at work on one Work object: update_work_status and the *)
(* current-date override.                                                  *)
(***************************************************************************)
EXTENDS Integers, Sequences, FiniteSets, TLC

VARIABLES
    work,                   \* the in-memory Work record handed to the scheduler
    jurisdictions,          \* table jurisdictions, rows in insertion (id) order
    copyright_rules,        \* table copyright_rules, rows in insertion order
    work_jurisdiction_status, \* table work_jurisdiction_status, rows in insertion order
    works,                  \* table works (with its authors), rows in insertion order
    table_authors,          \* table authors, rows in insertion (id) order
    current_date_override,  \* date_provider._current_date_override
    env_CURRENT_DATE,       \* the environment value CURRENT_DATE (text) or None
    call                    \* the last call made: operation, arguments, result

vars == <<work, jurisdictions, copyright_rules, work_jurisdiction_status,
          works, table_authors, current_date_override, env_CURRENT_DATE, call>>

----------------------------------------------------------------------------
(* Values *)

None == <<>>

NoStr == ""

NoId == 0

DEFAULT_TERM_YEARS == 70

Date(y, m, d) == <<y, m, d>>

Year(dt) == dt[1]

\* datetime.date ordering: by year, then month, then day
DateLT(a, b) ==
    \/ a[1] < b[1]
    \/ a[1] = b[1] /\ a[2] < b[2]
    \/ a[1] = b[1] /\ a[2] = b[2] /\ a[3] < b[3]

DateLE(a, b) == a = b \/ DateLT(a, b)

\* str.endswith
EndsWith(s, suffix) ==
    /\ Len(s) >= Len(suffix)
    /\ SubSeq(s, Len(s) - Len(suffix) + 1, Len(s)) = suffix

Suffix_Inc == <<" ", "I", "n", "c", ".">>

Name_Crown == <<"C", "r", "o", "w", "n">>

Author(name, death_date, nationality) ==
    [name |-> name, death_date |-> death_date, nationality |-> nationality]

Jurisdiction(id, name, code, term, special) ==
    [id |-> id, name |-> name, code |-> code,
     term_years_after_death |-> term, has_special_rules |-> special]

CopyrightRule(jurisdiction_id, rule_type, term_years) ==
    [jurisdiction_id |-> jurisdiction_id, rule_type |-> rule_type, term_years |-> term_years]

Statuses == {"Public Domain", "Copyrighted", "Unknown"}

----------------------------------------------------------------------------
(* database.py: the reads the scheduler makes *)

\* SQLite's ORDER BY name on the names the model uses (binary collation)
NameRank(name) ==
    CASE name = "America" -> 0
      [] name = "Canada" -> 1
      [] name = "European Union" -> 2
      [] name = "Japan" -> 3
      [] name = "Mexico" -> 4
      [] name = "United Kingdom" -> 5
      [] name = "United States" -> 6
      [] OTHER -> 7

RECURSIVE InsertByName(_, _)
InsertByName(row, sorted) ==
    IF sorted = <<>> THEN <<row>>
    ELSE IF NameRank(row.name) < NameRank(Head(sorted).name)
         THEN <<row>> \o sorted
         ELSE <<Head(sorted)>> \o InsertByName(row, Tail(sorted))

RECURSIVE SortByName(_)
SortByName(rows) ==
    IF rows = <<>> THEN <<>>
    ELSE InsertByName(Head(rows), SortByName(Tail(rows)))

get_all_jurisdictions == SortByName(jurisdictions)

RECURSIVE SelectRules(_, _)
SelectRules(rows, jurisdiction_id) ==
    IF rows = <<>> THEN <<>>
    ELSE IF Head(rows).jurisdiction_id = jurisdiction_id
         THEN <<Head(rows)>> \o SelectRules(Tail(rows), jurisdiction_id)
         ELSE SelectRules(Tail(rows), jurisdiction_id)

get_copyright_rules_for_jurisdiction(jurisdiction_id) ==
    IF \A i \in 1..Len(jurisdictions) : jurisdictions[i].id # jurisdiction_id
    THEN <<>>
    ELSE SelectRules(copyright_rules, jurisdiction_id)

----------------------------------------------------------------------------
(* scheduler.py: expiry calculation *)

\* keeps the first known death date
RECURSIVE FirstKnownDeathDate(_, _)
FirstKnownDeathDate(authors, latest_death_date) ==
    IF authors = <<>> THEN latest_death_date
    ELSE LET author == Head(authors)
             next == IF author.death_date # None /\ latest_death_date = None
                     THEN author.death_date
                     ELSE latest_death_date
         IN FirstKnownDeathDate(Tail(authors), next)

\* the loop of lines 49-54 (and 155-160): the latest known death date
RECURSIVE LatestDeathDate(_, _)
LatestDeathDate(authors, latest_death_date) ==
    IF authors = <<>> THEN latest_death_date
    ELSE LET author == Head(authors)
             next == IF author.death_date # None
                        /\ (latest_death_date = None
                            \/ DateLT(latest_death_date, author.death_date))
                     THEN author.death_date
                     ELSE latest_death_date
         IN LatestDeathDate(Tail(authors), next)

AllAuthorsHaveDeathDates(authors) ==
    \A i \in 1..Len(authors) : authors[i].death_date # None

\* lands on the first day of the year
StartOfYear(expiry_year) == Date(expiry_year, 1, 1)

\* date(expiry_year, 12, 31)
EndOfYear(expiry_year) == Date(expiry_year, 12, 31)

\* lines 40-42
standard_term_years(jurisdiction) ==
    IF jurisdiction # None
    THEN jurisdiction[1].term_years_after_death
    ELSE DEFAULT_TERM_YEARS

\* keeps the 70-year default when no jurisdiction is given
creation_term_years_default_without_jurisdiction(jurisdiction, term_years) ==
    IF jurisdiction # None
    THEN IF jurisdiction[1].code = "US" THEN 95
         ELSE IF jurisdiction[1].code = "EU" THEN 70
         ELSE term_years
    ELSE term_years

\* leaves out the US override
creation_term_years_no_US_override(jurisdiction, term_years) ==
    IF jurisdiction # None
    THEN IF jurisdiction[1].code = "EU" THEN 70 ELSE term_years
    ELSE 95

\* lines 74-83: the term of the creation-date fallback
creation_term_years(jurisdiction, term_years) ==
    IF jurisdiction # None
    THEN IF jurisdiction[1].code = "US" THEN 95
         ELSE IF jurisdiction[1].code = "EU" THEN 70
         ELSE term_years
    ELSE 95

\* what date(...) cannot build: stands for the outcome of a call that raised
Raised == Date(0, 0, 0)

\* reads creation_date.year without the test of line 71
calculate_standard_expiry_unguarded(w, jurisdiction) ==
    LET term_years == standard_term_years(jurisdiction)
        latest_death_date == LatestDeathDate(w.authors, None)
    IN IF w.authors # <<>> /\ latest_death_date # None
       THEN EndOfYear(Year(latest_death_date) + term_years)
       ELSE IF w.authors # <<>> /\ ~AllAuthorsHaveDeathDates(w.authors)
               /\ w.creation_date = None
       THEN None
       ELSE IF w.creation_date # None
       THEN EndOfYear(Year(w.creation_date)
                        + creation_term_years(jurisdiction, term_years))
       ELSE Raised

\* knows only the term after death: a work without a death date gets no expiry
calculate_standard_expiry_death_dates_only(w, jurisdiction) ==
    LET term_years == standard_term_years(jurisdiction)
        latest_death_date == LatestDeathDate(w.authors, None)
    IN IF w.authors # <<>> /\ latest_death_date # None
       THEN EndOfYear(Year(latest_death_date) + term_years)
       ELSE None

\* gives up as soon as one author lacks a death date
calculate_standard_expiry_strict(w, jurisdiction) ==
    LET term_years == standard_term_years(jurisdiction)
        latest_death_date == LatestDeathDate(w.authors, None)
    IN IF w.authors # <<>> /\ ~AllAuthorsHaveDeathDates(w.authors)
          /\ w.creation_date = None
       THEN None
       ELSE IF w.authors # <<>> /\ latest_death_date # None
       THEN EndOfYear(Year(latest_death_date) + term_years)
       ELSE IF w.creation_date # None
       THEN EndOfYear(Year(w.creation_date)
                        + creation_term_years(jurisdiction, term_years))
       ELSE None

calculate_standard_expiry(w, jurisdiction) ==
    LET term_years == standard_term_years(jurisdiction)
        latest_death_date == LatestDeathDate(w.authors, None)
    IN IF w.authors # <<>> /\ latest_death_date # None
       THEN EndOfYear(Year(latest_death_date) + term_years)
       ELSE IF w.authors # <<>> /\ ~AllAuthorsHaveDeathDates(w.authors)
               /\ w.creation_date = None
       THEN None
       ELSE IF w.creation_date # None
       THEN EndOfYear(Year(w.creation_date)
                        + creation_term_years(jurisdiction, term_years))
       ELSE None

\* "for rule in rules: if rule.rule_type == t": the first rule of that type
RECURSIVE FirstRule(_, _)
FirstRule(rules, rule_type) ==
    IF rules = <<>> THEN None
    ELSE IF Head(rules).rule_type = rule_type THEN <<Head(rules)>>
    ELSE FirstRule(Tail(rules), rule_type)

\* tries the corporate rule before the two rules on the creation year
special_rules_US_corporate_first(w, rules) ==
    LET before_1923 == FirstRule(rules, "published_before_1923")
        from_1923_to_1977 == FirstRule(rules, "published_1923_to_1977")
        corporate == FirstRule(rules, "corporate_works")
    IN IF w.authors # <<>> /\ Len(w.authors) = 1
          /\ EndsWith(w.authors[1].name, Suffix_Inc)
          /\ corporate # None /\ w.creation_date # None
       THEN EndOfYear(Year(w.creation_date) + corporate[1].term_years)
       ELSE IF w.creation_date # None /\ Year(w.creation_date) < 1923
               /\ before_1923 # None
       THEN Date(1923, 1, 1)
       ELSE IF w.creation_date # None /\ 1923 <= Year(w.creation_date)
               /\ Year(w.creation_date) <= 1977 /\ from_1923_to_1977 # None
       THEN EndOfYear(Year(w.creation_date) + from_1923_to_1977[1].term_years)
       ELSE None

special_rules_US(w, rules) ==
    LET before_1923 == FirstRule(rules, "published_before_1923")
        from_1923_to_1977 == FirstRule(rules, "published_1923_to_1977")
        corporate == FirstRule(rules, "corporate_works")
    IN IF w.creation_date # None /\ Year(w.creation_date) < 1923
          /\ before_1923 # None
       THEN Date(1923, 1, 1)
       ELSE IF w.creation_date # None /\ 1923 <= Year(w.creation_date)
               /\ Year(w.creation_date) <= 1977 /\ from_1923_to_1977 # None
       THEN EndOfYear(Year(w.creation_date) + from_1923_to_1977[1].term_years)
       ELSE IF w.authors # <<>> /\ Len(w.authors) = 1
               /\ EndsWith(w.authors[1].name, Suffix_Inc)
               /\ corporate # None /\ w.creation_date # None
       THEN EndOfYear(Year(w.creation_date) + corporate[1].term_years)
       ELSE None

\* takes the latest known death date, whether or not every author has one
special_rules_EU_latest_known(w, rules) ==
    LET anonymous == FirstRule(rules, "anonymous_works")
        collaborative == FirstRule(rules, "collaborative_works")
        latest_death_date == LatestDeathDate(w.authors, None)
    IN IF w.authors = <<>> /\ w.creation_date # None /\ anonymous # None
       THEN EndOfYear(Year(w.creation_date) + anonymous[1].term_years)
       ELSE IF Len(w.authors) > 1 /\ collaborative # None
               /\ latest_death_date # None
       THEN EndOfYear(Year(latest_death_date) + collaborative[1].term_years)
       ELSE None

special_rules_EU(w, rules) ==
    LET anonymous == FirstRule(rules, "anonymous_works")
        collaborative == FirstRule(rules, "collaborative_works")
        latest_death_date == LatestDeathDate(w.authors, None)
    IN IF w.authors = <<>> /\ w.creation_date # None /\ anonymous # None
       THEN EndOfYear(Year(w.creation_date) + anonymous[1].term_years)
       ELSE IF Len(w.authors) > 1 /\ collaborative # None
               /\ latest_death_date # None /\ AllAuthorsHaveDeathDates(w.authors)
       THEN EndOfYear(Year(latest_death_date) + collaborative[1].term_years)
       ELSE None

special_rules_GB(w, rules) ==
    LET crown == FirstRule(rules, "crown_copyright")
    IN IF w.authors # <<>>
          /\ (\E i \in 1..Len(w.authors) : w.authors[i].name = Name_Crown)
          /\ w.creation_date # None /\ crown # None
       THEN EndOfYear(Year(w.creation_date) + crown[1].term_years)
       ELSE None

\* applies the GB rule under every code that is neither US nor EU
apply_special_rules_other_codes_as_GB(w, j) ==
    IF j.id = NoId THEN None
    ELSE LET rules == get_copyright_rules_for_jurisdiction(j.id)
         IN IF rules = <<>> THEN None
            ELSE IF j.code = "US" THEN special_rules_US(w, rules)
            ELSE IF j.code = "EU" THEN special_rules_EU(w, rules)
            ELSE special_rules_GB(w, rules)

apply_special_rules(w, j) ==
    IF j.id = NoId THEN None
    ELSE LET rules == get_copyright_rules_for_jurisdiction(j.id)
         IN IF rules = <<>> THEN None
            ELSE IF j.code = "US" THEN special_rules_US(w, rules)
            ELSE IF j.code = "EU" THEN special_rules_EU(w, rules)
            ELSE IF j.code = "GB" THEN special_rules_GB(w, rules)
            ELSE None

\* never falls back to the primary jurisdiction
effective_jurisdiction_as_given(w, jurisdiction) == jurisdiction

\* lines 21-23: the jurisdiction the calculation runs under
effective_jurisdiction(w, jurisdiction) ==
    IF jurisdiction = None /\ w.primary_jurisdiction # None
    THEN w.primary_jurisdiction
    ELSE jurisdiction

calculate_expiry(w, jurisdiction) ==
    LET j == effective_jurisdiction(w, jurisdiction)
        special == IF j # None /\ j[1].has_special_rules
                   THEN apply_special_rules(w, j[1])
                   ELSE None
    IN IF special # None THEN special
       ELSE calculate_standard_expiry(w, j)

----------------------------------------------------------------------------
(* date_provider.py *)

_DEFAULT_DATE == Date(2025, 4, 30)

Digits == <<"0", "1", "2", "3", "4", "5", "6", "7", "8", "9">>

IsDigit(c) == \E i \in 1..10 : Digits[i] = c

DigitValue(c) == (CHOOSE i \in 1..10 : Digits[i] = c) - 1

\* str.split("-")
RECURSIVE Split(_, _, _)
Split(text, part, parts) ==
    IF text = <<>> THEN Append(parts, part)
    ELSE IF Head(text) = "-" THEN Split(Tail(text), <<>>, Append(parts, part))
    ELSE Split(Tail(text), Append(part, Head(text)), parts)

\* str.strip() on the blanks of the texts of the model
strip(s) ==
    LET kept == { i \in 1..Len(s) : s[i] # " " }
    IN IF kept = {} THEN <<>>
       ELSE SubSeq(s, CHOOSE i \in kept : \A k \in kept : i <= k,
                      CHOOSE i \in kept : \A k \in kept : k <= i)

\* a plus sign before the digits is accepted (a minus sign never reaches
\* int(): the text is split on it)
WithoutSign(s) == IF s # <<>> /\ Head(s) = "+" THEN Tail(s) ELSE s

\* the digits part of an integer literal: blanks around it are accepted
Unsigned(s) == WithoutSign(strip(s))

\* decimal digits, single underscores allowed between them
IsDecimal(digits) ==
    /\ digits # <<>>
    /\ IsDigit(Head(digits)) /\ IsDigit(digits[Len(digits)])
    /\ \A i \in 1..Len(digits) : IsDigit(digits[i]) \/ digits[i] = "_"
    /\ \A i \in 1..(Len(digits) - 1) : ~(digits[i] = "_" /\ digits[i + 1] = "_")

\* int(s) succeeds
IsInt(s) == IsDecimal(Unsigned(s))

RECURSIVE ToInt(_, _)
ToInt(s, acc) ==
    IF s = <<>> THEN acc ELSE ToInt(Tail(s), 10 * acc + DigitValue(Head(s)))

\* int(s) where it succeeds
IntValue(s) == ToInt(SelectSeq(Unsigned(s), IsDigit), 0)

IsLeap(y) == (y % 4 = 0 /\ y % 100 # 0) \/ y % 400 = 0

DaysInMonth(y, m) ==
    IF m = 2 THEN (IF IsLeap(y) THEN 29 ELSE 28)
    ELSE IF m \in {4, 6, 9, 11} THEN 30 ELSE 31

\* date(y, m, d) raises ValueError outside these ranges
ValidDate(y, m, d) ==
    /\ 1 <= y /\ y <= 9999
    /\ 1 <= m /\ m <= 12
    /\ 1 <= d /\ d <= DaysInMonth(y, m)

\* date(y, m, d), or None when it raises
date_or_none(y, m, d) == IF ValidDate(y, m, d) THEN Date(y, m, d) ELSE None

\* line 27: map(int, parts) and date(year, month, day)
date_from_parts(parts) ==
    IF Len(parts) = 3 /\ \A i \in 1..3 : IsInt(parts[i])
    THEN date_or_none(IntValue(parts[1]), IntValue(parts[2]), IntValue(parts[3]))
    ELSE None

\* lines 25-29: the parsed date, or None when the try block raises
parse_env_date(env_date) == date_from_parts(Split(env_date, <<>>, <<>>))

\* asks the environment before the override
get_current_date_env_first ==
    IF env_CURRENT_DATE # None /\ parse_env_date(env_CURRENT_DATE) # None
    THEN parse_env_date(env_CURRENT_DATE)
    ELSE IF current_date_override # None THEN current_date_override
    ELSE _DEFAULT_DATE

get_current_date ==
    IF current_date_override # None THEN current_date_override
    ELSE IF env_CURRENT_DATE # None /\ parse_env_date(env_CURRENT_DATE) # None
    THEN parse_env_date(env_CURRENT_DATE)
    ELSE _DEFAULT_DATE

----------------------------------------------------------------------------
(* scheduler.py: status *)

\* consults the global status before the per-jurisdiction entry
cached_status_global_first(w, jurisdiction) ==
    IF w.status # NoStr /\ w.status # "Unknown"
    THEN <<w.status>>
    ELSE IF jurisdiction # None /\ DOMAIN w.status_by_jurisdiction # {}
            /\ jurisdiction[1].code \in DOMAIN w.status_by_jurisdiction
    THEN <<w.status_by_jurisdiction[jurisdiction[1].code]>>
    ELSE None

\* has nothing stored to return
cached_status_never(w, jurisdiction) == None

\* returns a stored 'Public Domain' only: a work stored as 'Copyrighted' or
\* 'Unknown' is decided anew
cached_status_public_domain_only(w, jurisdiction) ==
    IF jurisdiction = None /\ w.status = "Public Domain"
    THEN <<w.status>>
    ELSE IF jurisdiction # None /\ DOMAIN w.status_by_jurisdiction # {}
            /\ jurisdiction[1].code \in DOMAIN w.status_by_jurisdiction
            /\ w.status_by_jurisdiction[jurisdiction[1].code] = "Public Domain"
    THEN <<w.status_by_jurisdiction[jurisdiction[1].code]>>
    ELSE None

\* lines 197-206: the value returned without computing, as <<value>>, or None
cached_status(w, jurisdiction) ==
    IF jurisdiction = None /\ w.status # NoStr /\ w.status # "Unknown"
    THEN <<w.status>>
    ELSE IF jurisdiction # None /\ DOMAIN w.status_by_jurisdiction # {}
            /\ jurisdiction[1].code \in DOMAIN w.status_by_jurisdiction
    THEN <<w.status_by_jurisdiction[jurisdiction[1].code]>>
    ELSE None

\* expires only after the expiry date has passed
status_from_expiry_strict(expiry_date, current_date) ==
    IF DateLT(expiry_date, current_date) THEN "Public Domain" ELSE "Copyrighted"

\* compares the wrong way round
status_from_expiry_reversed(expiry_date, current_date) ==
    IF DateLE(current_date, expiry_date) THEN "Public Domain" ELSE "Copyrighted"

\* never lets a copyright expire
status_from_expiry_never_expires(expiry_date, current_date) == "Copyrighted"

\* lines 211-215
status_from_expiry(expiry_date, current_date) ==
    IF DateLE(expiry_date, current_date) THEN "Public Domain" ELSE "Copyrighted"

\* treats a work it cannot decide as protected
default_status_copyrighted == "Copyrighted"

\* lines 227-228: the default case
default_status == "Unknown"

\* takes a work without a creation date for an old one
historical_status_without_creation_date(w, jurisdiction) ==
    IF w.creation_date = None \/ Year(w.creation_date) < 1875
    THEN "Public Domain"
    ELSE IF jurisdiction # None /\ jurisdiction[1].code = "US"
            /\ Year(w.creation_date) < 1927
    THEN "Public Domain"
    ELSE default_status

\* lines 217-228: the cut-off years for old works, else the default case
historical_status(w, jurisdiction) ==
    IF w.creation_date # None /\ Year(w.creation_date) < 1875
    THEN "Public Domain"
    ELSE IF w.creation_date # None /\ jurisdiction # None
            /\ jurisdiction[1].code = "US" /\ Year(w.creation_date) < 1927
    THEN "Public Domain"
    ELSE default_status

determine_status(w, jurisdiction, current_date) ==
    LET today == IF current_date = None THEN get_current_date ELSE current_date
        cached == cached_status(w, jurisdiction)
        expiry_date == calculate_expiry(w, jurisdiction)
    IN IF cached # None THEN cached[1]
       ELSE IF expiry_date # None
       THEN status_from_expiry(expiry_date, today)
       ELSE historical_status(w, jurisdiction)

\* d[key] = value
DictSet(d, key, value) ==
    [k \in DOMAIN d \cup {key} |-> IF k = key THEN value ELSE d[k]]

DigitChar(n) == Digits[n + 1]

\* date.isoformat(): YYYY-MM-DD
isoformat(dt) ==
    <<DigitChar(dt[1] \div 1000), DigitChar((dt[1] \div 100) % 10),
      DigitChar((dt[1] \div 10) % 10), DigitChar(dt[1] % 10), "-",
      DigitChar(dt[2] \div 10), DigitChar(dt[2] % 10), "-",
      DigitChar(dt[3] \div 10), DigitChar(dt[3] % 10)>>

\* date.fromisoformat on a text of the form YYYY-MM-DD; None where it raises
\* ValueError (reduced-precision and malformed texts)
fromisoformat(text) ==
    IF /\ Len(text) = 10
       /\ text[5] = "-" /\ text[8] = "-"
       /\ \A i \in {1, 2, 3, 4, 6, 7, 9, 10} : IsDigit(text[i])
    THEN LET y == ToInt(SubSeq(text, 1, 4), 0)
             m == ToInt(SubSeq(text, 6, 7), 0)
             d == ToInt(SubSeq(text, 9, 10), 0)
         IN IF ValidDate(y, m, d) THEN Date(y, m, d) ELSE None
    ELSE None

\* database._parse_db_date
_parse_db_date(date_str) ==
    IF date_str = None THEN None ELSE fromisoformat(date_str)

\* a row of work_jurisdiction_status; expiry_date is the stored text or None
StatusRow(work_id, jurisdiction_id, status, expiry_date) ==
    [work_id |-> work_id, jurisdiction_id |-> jurisdiction_id,
     status |-> status, expiry_date |-> expiry_date]

\* WHERE work_id = ? AND jurisdiction_id = ?
HasStatusKey(row, work_id, jurisdiction_id) ==
    row.work_id = work_id /\ row.jurisdiction_id = jurisdiction_id

\* inserts a row whether or not the key is there already
set_work_copyright_status_by_jurisdiction_always_insert(table, work_id, jurisdiction_id, status, expiry_date) ==
    Append(table, StatusRow(work_id, jurisdiction_id, status,
                            IF expiry_date # None THEN isoformat(expiry_date) ELSE None))

\* database.set_work_copyright_status_by_jurisdiction: SELECT, then UPDATE of
\* the record that exists or INSERT of a new one
set_work_copyright_status_by_jurisdiction(table, work_id, jurisdiction_id, status, expiry_date) ==
    LET expiry_date_str == IF expiry_date # None THEN isoformat(expiry_date) ELSE None
    IN IF \E i \in 1..Len(table) : HasStatusKey(table[i], work_id, jurisdiction_id)
       THEN [i \in 1..Len(table) |->
                IF HasStatusKey(table[i], work_id, jurisdiction_id)
                THEN [table[i] EXCEPT !.status = status,
                                      !.expiry_date = expiry_date_str]
                ELSE table[i]]
       ELSE Append(table, StatusRow(work_id, jurisdiction_id, status, expiry_date_str))

\* lines 246-256: the loop over the jurisdictions; yields the map and the table
RECURSIVE multi_jurisdiction_loop(_, _, _, _)
multi_jurisdiction_loop(w, js, status_map, table) ==
    IF js = <<>> THEN [status_map |-> status_map, table |-> table]
    ELSE LET jurisdiction == Head(js)
             status == determine_status(w, <<jurisdiction>>, None)
         IN IF jurisdiction.code = NoStr
            THEN multi_jurisdiction_loop(w, Tail(js), status_map, table)
            ELSE multi_jurisdiction_loop(w, Tail(js),
                    DictSet(status_map, jurisdiction.code, status),
                    IF w.id # NoId /\ jurisdiction.id # NoId
                    THEN set_work_copyright_status_by_jurisdiction(table, w.id,
                            jurisdiction.id, status,
                            calculate_expiry(w, <<jurisdiction>>))
                    ELSE table)

\* takes an empty list as it is
calculate_multi_jurisdiction_status_no_default(w, js, table) ==
    multi_jurisdiction_loop(w, js, <<>>, table)

calculate_multi_jurisdiction_status(w, js, table) ==
    multi_jurisdiction_loop(w, IF js = <<>> THEN get_all_jurisdictions ELSE js,
                            <<>>, table)

\* lines 291-294: the first catalog jurisdiction with that code
RECURSIVE FirstWithCode(_, _)
FirstWithCode(js, code) ==
    IF js = <<>> THEN None
    ELSE IF Head(js).code = code THEN <<Head(js)>>
    ELSE FirstWithCode(Tail(js), code)

\* goes through the catalog first and through the authors second
RECURSIVE primary_by_catalog_order(_, _)
primary_by_catalog_order(authors, js) ==
    IF js = <<>> THEN None
    ELSE IF \E i \in 1..Len(authors) :
               authors[i].nationality # NoStr /\ authors[i].nationality = Head(js).code
    THEN <<Head(js)>>
    ELSE primary_by_catalog_order(authors, Tail(js))

\* lines 288-296: the first author whose nationality matches a jurisdiction
RECURSIVE primary_from_authors(_, _)
primary_from_authors(authors, js) ==
    IF authors = <<>> THEN None
    ELSE IF Head(authors).nationality # NoStr
            /\ FirstWithCode(js, Head(authors).nationality) # None
    THEN FirstWithCode(js, Head(authors).nationality)
    ELSE primary_from_authors(Tail(authors), js)

\* computes the expiry again on every call
expiry_on_update_recomputed(w) == calculate_expiry(w, None)

\* lines 276-278: the expiry is computed only while it is unset
expiry_on_update(w) ==
    IF w.copyright_expiry_date = None
    THEN calculate_expiry(w, None)
    ELSE w.copyright_expiry_date

\* assigns the primary jurisdiction before it computes expiry and status
update_work_status_primary_first(w, table) ==
    LET js == get_all_jurisdictions
        w0 == IF w.primary_jurisdiction = None /\ w.authors # <<>>
              THEN [w EXCEPT !.primary_jurisdiction = primary_from_authors(w.authors, js)]
              ELSE w
        w1 == [w0 EXCEPT !.copyright_expiry_date = expiry_on_update(w0)]
        w2 == [w1 EXCEPT !.status = determine_status(w1, None, None)]
        multi == calculate_multi_jurisdiction_status(w2, js, table)
    IN [work |-> [w2 EXCEPT !.status_by_jurisdiction = multi.status_map],
        table |-> multi.table]

\* yields the updated work and the table
update_work_status(w, table) ==
    LET js == get_all_jurisdictions
        w1 == [w EXCEPT !.copyright_expiry_date = expiry_on_update(w)]
        w2 == [w1 EXCEPT !.status = determine_status(w1, None, None)]
        multi == calculate_multi_jurisdiction_status(w2, js, table)
        w3 == [w2 EXCEPT !.status_by_jurisdiction = multi.status_map]
        w4 == IF w3.primary_jurisdiction = None /\ w3.authors # <<>>
              THEN [w3 EXCEPT !.primary_jurisdiction = primary_from_authors(w3.authors, js)]
              ELSE w3
    IN [work |-> w4, table |-> multi.table]

\* the days of the years before year y (proleptic Gregorian calendar)
DaysBeforeYear(y) ==
    365 * (y - 1) + ((y - 1) \div 4) - ((y - 1) \div 100) + ((y - 1) \div 400)

RECURSIVE DaysBeforeMonth(_, _)
DaysBeforeMonth(y, m) ==
    IF m = 1 THEN 0 ELSE DaysBeforeMonth(y, m - 1) + DaysInMonth(y, m - 1)

\* date.toordinal()
toordinal(dt) == DaysBeforeYear(dt[1]) + DaysBeforeMonth(dt[1], dt[2]) + dt[3]

\* (a - b).days
DaysBetween(a, b) == toordinal(a) - toordinal(b)

\* gives no number on the day of the expiry
days_or_none_after_today(days) == IF days > 0 THEN <<days>> ELSE None

\* line 329: days if days >= 0 else None
days_or_none(days) == IF days >= 0 THEN <<days>> ELSE None

\* stores the expiry it computed, with a jurisdiction as without
get_days_until_expiry_always_stores(w, jurisdiction, current_date) ==
    LET today == IF current_date = None THEN get_current_date ELSE current_date
        expiry_date == IF jurisdiction # None
                       THEN calculate_expiry(w, jurisdiction)
                       ELSE IF w.copyright_expiry_date = None
                       THEN calculate_expiry(w, None)
                       ELSE w.copyright_expiry_date
        w1 == [w EXCEPT !.copyright_expiry_date = expiry_date]
        status == determine_status(w1, jurisdiction, today)
    IN [work |-> w1,
        result |-> IF expiry_date = None THEN None
                   ELSE IF status = "Public Domain" THEN None
                   ELSE days_or_none(DaysBetween(expiry_date, today))]

\* yields the work, whose expiry the call may have set, and the result
get_days_until_expiry(w, jurisdiction, current_date) ==
    LET today == IF current_date = None THEN get_current_date ELSE current_date
        w1 == IF jurisdiction = None /\ w.copyright_expiry_date = None
              THEN [w EXCEPT !.copyright_expiry_date = calculate_expiry(w, None)]
              ELSE w
        expiry_date == IF jurisdiction # None
                       THEN calculate_expiry(w, jurisdiction)
                       ELSE w1.copyright_expiry_date
        status == determine_status(w1, jurisdiction, today)
    IN [work |-> w1,
        result |-> IF expiry_date = None THEN None
                   ELSE IF status = "Public Domain" THEN None
                   ELSE days_or_none(DaysBetween(expiry_date, today))]

----------------------------------------------------------------------------
(* The works, jurisdictions and dates the model is run on *)

MaxAuthors == 2

Name_Stoker == <<"S", "t", "o", "k", "e", "r">>

Name_Wells == <<"W", "e", "l", "l", "s">>

Name_Doe == <<"D", "o", "e">>

Name_AcmeInc == <<"A", "c", "m", "e", " ", "I", "n", "c", ".">>

AuthorPool ==
    { Author(Name_Stoker, Date(1912, 4, 20), "GB"),
      Author(Name_Wells, Date(1946, 8, 13), NoStr),
      Author(Name_Doe, None, "US"),
      Author(Name_AcmeInc, None, NoStr),
      Author(Name_Crown, None, "XX") }

AuthorLists == UNION { [1..n -> AuthorPool] : n \in 0..MaxAuthors }

CreationDates ==
    { None, Date(1870, 5, 1), Date(1920, 3, 1), Date(1925, 7, 4),
      Date(1950, 1, 1), Date(1980, 9, 9) }

US == Jurisdiction(1, "United States", "US", 70, TRUE)

EU == Jurisdiction(2, "European Union", "EU", 70, TRUE)

CA == Jurisdiction(3, "Canada", "CA", 50, FALSE)

GB == Jurisdiction(4, "United Kingdom", "GB", 70, TRUE)

JP == Jurisdiction(5, "Japan", "JP", 70, FALSE)

MX == Jurisdiction(6, "Mexico", "MX", 100, FALSE)

\* the tables after database.initialize_default_jurisdictions()
DefaultJurisdictions == <<US, EU, CA, GB, JP, MX>>

DefaultRules ==
    << CopyrightRule(1, "published_before_1923", 0),
       CopyrightRule(1, "corporate_works", 95),
       CopyrightRule(1, "published_1923_to_1977", 95),
       CopyrightRule(2, "anonymous_works", 70),
       CopyrightRule(2, "collaborative_works", 70),
       CopyrightRule(4, "crown_copyright", 50) >>

\* another rule table add_copyright_rule can build: other terms, rules missing
OtherRules ==
    << CopyrightRule(1, "corporate_works", 120),
       CopyrightRule(1, "published_1923_to_1977", 75),
       CopyrightRule(2, "anonymous_works", 50),
       CopyrightRule(2, "collaborative_works", 60) >>

RuleTables == {DefaultRules, OtherRules}

\* jurisdiction objects a caller can pass that are not rows of the table
CallerJurisdictions ==
    { Jurisdiction(NoId, "United States", "US", 70, TRUE),
      Jurisdiction(1, "United States", "US", 70, FALSE),
      Jurisdiction(2, "European Union", "EU", 50, FALSE),
      Jurisdiction(NoId, "Other", NoStr, 50, FALSE),
      Jurisdiction(NoId, "Other", "XX", 80, TRUE),
      Jurisdiction(4, "United Kingdom", "UK", 70, TRUE) }

JurisdictionArgs ==
    {None} \cup { <<DefaultJurisdictions[i]>> : i \in 1..Len(DefaultJurisdictions) }
           \cup { <<j>> : j \in CallerJurisdictions }

Dates == { Date(1982, 12, 30), Date(1982, 12, 31), Date(2040, 1, 1) }

Work(id, authors, creation_date, expiry, primary, status, by_jurisdiction) ==
    [id |-> id, authors |-> authors, creation_date |-> creation_date,
     copyright_expiry_date |-> expiry, primary_jurisdiction |-> primary,
     status |-> status, status_by_jurisdiction |-> by_jurisdiction]

----------------------------------------------------------------------------
(* database.py: the works table; scheduler.py: the works of one status *)

\* a row of works with the authors work_authors joins to it; the dates are
\* the stored texts or None
WorkRow(id, title, authors, creation_date, copyright_expiry_date, status) ==
    [id |-> id, title |-> title, authors |-> authors,
     creation_date |-> creation_date,
     copyright_expiry_date |-> copyright_expiry_date, status |-> status]

\* SQLite's ORDER BY title on the titles the model uses (binary collation)
TitleRank(title) ==
    CASE title = "Dracula" -> 1
      [] title = "Metropolis" -> 2
      [] title = "The Time Machine" -> 3
      [] title = "Untitled" -> 4
      [] OTHER -> 5

RECURSIVE InsertByTitle(_, _)
InsertByTitle(row, sorted) ==
    IF sorted = <<>> THEN <<row>>
    ELSE IF TitleRank(row.title) < TitleRank(Head(sorted).title)
         THEN <<row>> \o sorted
         ELSE <<Head(sorted)>> \o InsertByTitle(row, Tail(sorted))

RECURSIVE SortByTitle(_)
SortByTitle(rows) ==
    IF rows = <<>> THEN <<>>
    ELSE InsertByTitle(Head(rows), SortByTitle(Tail(rows)))

\* the per-jurisdiction statuses of the work as work_jurisdiction_status has
\* them, by the code of the jurisdiction
RECURSIVE StoredStatusMap(_, _, _)
StoredStatusMap(work_id, table, status_map) ==
    IF table = <<>> THEN status_map
    ELSE LET row == Head(table)
             matching == { i \in 1..Len(jurisdictions) :
                             jurisdictions[i].id = row.jurisdiction_id }
         IN StoredStatusMap(work_id, Tail(table),
                IF row.work_id = work_id /\ matching # {}
                THEN DictSet(status_map,
                             jurisdictions[CHOOSE i \in matching : TRUE].code,
                             row.status)
                ELSE status_map)

\* fills status_by_jurisdiction from work_jurisdiction_status
get_work_by_id_with_stored_statuses(row) ==
    Work(row.id,
         [i \in 1..Len(row.authors) |->
            Author(row.authors[i].name, _parse_db_date(row.authors[i].death_date),
                   row.authors[i].nationality)],
         _parse_db_date(row.creation_date),
         _parse_db_date(row.copyright_expiry_date),
         None, row.status,
         StoredStatusMap(row.id, work_jurisdiction_status, <<>>))

\* database.get_work_by_id, from the row: primary_jurisdiction and
\* status_by_jurisdiction are not loaded
get_work_by_id(row) ==
    Work(row.id,
         [i \in 1..Len(row.authors) |->
            Author(row.authors[i].name, _parse_db_date(row.authors[i].death_date),
                   row.authors[i].nationality)],
         _parse_db_date(row.creation_date),
         _parse_db_date(row.copyright_expiry_date),
         None, row.status, <<>>)

\* database.get_all_works: ORDER BY title
get_all_works ==
    LET rows == SortByTitle(works)
    IN [i \in 1..Len(rows) |-> get_work_by_id(rows[i])]

\* lines 357-361: the works whose status in the jurisdiction is the one asked
RECURSIVE matching_works(_, _, _)
matching_works(all_works, jurisdiction, status) ==
    IF all_works = <<>> THEN <<>>
    ELSE (IF determine_status(Head(all_works), jurisdiction, None) = status
          THEN <<Head(all_works)>> ELSE <<>>)
         \o matching_works(Tail(all_works), jurisdiction, status)

get_works_by_status_in_jurisdiction(jurisdiction_code, status) ==
    LET jurisdiction == FirstWithCode(get_all_jurisdictions, jurisdiction_code)
    IN IF jurisdiction = None THEN <<>>
       ELSE matching_works(get_all_works, jurisdiction, status)

----------------------------------------------------------------------------
(* database.py: add_jurisdiction *)

\* inserts a row whatever the table holds
add_jurisdiction_always_insert(table, jurisdiction) ==
    LET saved == [jurisdiction EXCEPT !.id = Len(table) + 1]
    IN IF jurisdiction.name = NoStr THEN [table |-> table, result |-> None]
       ELSE [table |-> Append(table, saved), result |-> <<saved>>]

\* yields the table after the call and the Jurisdiction returned, which is
\* the argument with its id set (None for a jurisdiction without a name)
add_jurisdiction(table, jurisdiction) ==
    LET found == { i \in 1..Len(table) : table[i].name = jurisdiction.name }
    IN IF jurisdiction.name = NoStr THEN [table |-> table, result |-> None]
       ELSE IF found # {}
       THEN LET i == CHOOSE k \in found : TRUE
                saved == [jurisdiction EXCEPT !.id = table[i].id]
            IN [table |-> [table EXCEPT ![i] = saved], result |-> <<saved>>]
       ELSE LET saved == [jurisdiction EXCEPT !.id = Len(table) + 1]
            IN [table |-> Append(table, saved), result |-> <<saved>>]

----------------------------------------------------------------------------
(* database.py: the authors table *)

\* an Author as get_or_save_author takes and returns it; nationality is None,
\* or the one-element tuple of the text (which may be the empty text)
AuthorRecord(id, name, birth_date, death_date, nationality) ==
    [id |-> id, name |-> name, birth_date |-> birth_date,
     death_date |-> death_date, nationality |-> nationality]

\* a row of authors: NULL is None, the dates are stored as isoformat text
AuthorRow(id, name, birth_date, death_date, nationality) ==
    [id |-> id, name |-> name, birth_date |-> birth_date,
     death_date |-> death_date, nationality |-> nationality]

\* Python truthiness of an Optional[str]
Truthy(text) == text # None /\ text # <<"">>

\* SQL COALESCE(?, column): the bound value unless it is NULL
COALESCE(value, column) == IF value # None THEN value ELSE column

\* yields the table after the call and the Author returned (None for an
\* author without a name)
get_or_save_author(table, author) ==
    LET birth_date_str == IF author.birth_date # None
                          THEN isoformat(author.birth_date) ELSE None
        death_date_str == IF author.death_date # None
                          THEN isoformat(author.death_date) ELSE None
        found == { i \in 1..Len(table) : table[i].name = author.name }
    IN IF author.name = NoStr THEN [table |-> table, result |-> None]
       ELSE IF found # {}
       THEN LET i == CHOOSE k \in found : TRUE
                db_id == table[i].id
                db_birth == table[i].birth_date
                db_death == table[i].death_date
                db_nationality == table[i].nationality
                more_info == \/ birth_date_str # None /\ db_birth = None
                             \/ death_date_str # None /\ db_death = None
                             \/ Truthy(author.nationality) /\ ~Truthy(db_nationality)
                updated == [table[i] EXCEPT
                              !.birth_date = COALESCE(birth_date_str, @),
                              !.death_date = COALESCE(death_date_str, @),
                              !.nationality = COALESCE(author.nationality, @)]
            IN [table |-> IF more_info THEN [table EXCEPT ![i] = updated] ELSE table,
                result |-> AuthorRecord(
                    db_id, author.name,
                    IF db_birth # None THEN fromisoformat(db_birth)
                    ELSE IF birth_date_str # None THEN author.birth_date ELSE None,
                    IF db_death # None THEN fromisoformat(db_death)
                    ELSE IF death_date_str # None THEN author.death_date ELSE None,
                    IF Truthy(db_nationality) THEN db_nationality
                    ELSE author.nationality)]
       ELSE LET author_id == Len(table) + 1
            IN [table |-> Append(table, AuthorRow(author_id, author.name,
                                                  birth_date_str, death_date_str,
                                                  author.nationality)),
                result |-> AuthorRecord(author_id, author.name, author.birth_date,
                                        author.death_date, author.nationality)]

----------------------------------------------------------------------------
(* The record of the last call *)

\* the last call: its arguments, the work as it was on entry (for a call that
\* changes the work) and what it returned
NoCall ==
    [op |-> "none", jurisdiction |-> None, current_date |-> None,
     status |-> NoStr, author |-> None, before |-> None, result |-> None]

Call(op, jurisdiction, current_date, result) ==
    [op |-> op, jurisdiction |-> jurisdiction, current_date |-> current_date,
     status |-> NoStr, author |-> None, before |-> None, result |-> result]

CallOnWork(op, before, result) ==
    [op |-> op, jurisdiction |-> None, current_date |-> None,
     status |-> NoStr, author |-> None, before |-> before, result |-> result]

\* a call of get_works_by_status_in_jurisdiction: jurisdiction is the code
CallWithFilter(op, jurisdiction_code, status, result) ==
    [op |-> op, jurisdiction |-> jurisdiction_code, current_date |-> None,
     status |-> status, author |-> None, before |-> None, result |-> result]

\* a call with arguments that may change the work: before is the work on entry
CallWithArgsOnWork(op, jurisdiction, current_date, before, result) ==
    [op |-> op, jurisdiction |-> jurisdiction, current_date |-> current_date,
     status |-> NoStr, author |-> None, before |-> before, result |-> result]

\* a call of get_or_save_author
CallOnAuthor(op, author, result) ==
    [op |-> op, jurisdiction |-> None, current_date |-> None,
     status |-> NoStr, author |-> author, before |-> None, result |-> result]

\* a call that writes to work_jurisdiction_status: before is the table on entry
CallOnStore(op, jurisdiction, before, result) ==
    [op |-> op, jurisdiction |-> jurisdiction, current_date |-> None,
     status |-> NoStr, author |-> None, before |-> before, result |-> result]

----------------------------------------------------------------------------
(* SpecExpiry: the expiry functions applied to a work that has no status yet *)

InitExpiry ==
    /\ \E authors \in AuthorLists, creation_date \in CreationDates,
          primary \in {None, <<US>>, <<CA>>} :
          work = Work(NoId, authors, creation_date, None, primary, "Unknown", <<>>)
    /\ jurisdictions = DefaultJurisdictions
    /\ copyright_rules \in RuleTables
    /\ work_jurisdiction_status = <<>>
    /\ works = <<>>
    /\ table_authors = <<>>
    /\ current_date_override = None
    /\ env_CURRENT_DATE = None
    /\ call = NoCall

CalculateExpiry(jurisdiction) ==
    /\ call' = Call("calculate_expiry", jurisdiction, None,
                    calculate_expiry(work, jurisdiction))
    /\ UNCHANGED <<work, jurisdictions, copyright_rules, work_jurisdiction_status,
                   works, table_authors, current_date_override, env_CURRENT_DATE>>

CalculateStandardExpiry(jurisdiction) ==
    /\ call' = Call("calculate_standard_expiry", jurisdiction, None,
                    calculate_standard_expiry(work, jurisdiction))
    /\ UNCHANGED <<work, jurisdictions, copyright_rules, work_jurisdiction_status,
                   works, table_authors, current_date_override, env_CURRENT_DATE>>

ApplySpecialRules(jurisdiction) ==
    /\ jurisdiction # None
    /\ call' = Call("apply_special_rules", jurisdiction, None,
                    apply_special_rules(work, jurisdiction[1]))
    /\ UNCHANGED <<work, jurisdictions, copyright_rules, work_jurisdiction_status,
                   works, table_authors, current_date_override, env_CURRENT_DATE>>

NextExpiry ==
    \E jurisdiction \in JurisdictionArgs :
        \/ CalculateExpiry(jurisdiction)
        \/ CalculateStandardExpiry(jurisdiction)
        \/ ApplySpecialRules(jurisdiction)

SpecExpiry == InitExpiry /\ [][NextExpiry]_vars

----------------------------------------------------------------------------
(* The statuses a work can carry when the scheduler gets it: Work() defaults  *)
(* to 'Unknown' and an empty map; the scrapers, the enrichment step and      *)
(* add_famous_works build works with a status or with map entries already set *)

StatusCaches ==
    { <<"Unknown", <<>>>>,
      <<"Copyrighted", <<>>>>,
      <<"Public Domain", ("US" :> "Copyrighted")>>,
      <<"Unknown", ("US" :> "Public Domain") @@ ("CA" :> "Unknown")>> }

StatusJurisdictionArgs ==
    { None, <<US>>, <<CA>>, <<GB>>, <<Jurisdiction(NoId, "Other", NoStr, 50, FALSE)>> }

----------------------------------------------------------------------------
(* SpecStatus: determine_status applied to a work, cached statuses included *)

InitStatus ==
    /\ \E authors \in AuthorLists, creation_date \in CreationDates,
          primary \in {None, <<US>>}, cache \in StatusCaches :
          work = Work(NoId, authors, creation_date, None, primary,
                      cache[1], cache[2])
    /\ jurisdictions = DefaultJurisdictions
    /\ copyright_rules = DefaultRules
    /\ work_jurisdiction_status = <<>>
    /\ works = <<>>
    /\ table_authors = <<>>
    /\ current_date_override = None
    /\ env_CURRENT_DATE = None
    /\ call = NoCall

DetermineStatus(jurisdiction, current_date) ==
    /\ call' = Call("determine_status", jurisdiction, current_date,
                    determine_status(work, jurisdiction, current_date))
    /\ UNCHANGED <<work, jurisdictions, copyright_rules, work_jurisdiction_status,
                   works, table_authors, current_date_override, env_CURRENT_DATE>>

NextStatus ==
    \E jurisdiction \in StatusJurisdictionArgs, current_date \in Dates \cup {None} :
        DetermineStatus(jurisdiction, current_date)

SpecStatus == InitStatus /\ [][NextStatus]_vars

----------------------------------------------------------------------------
(* Spec: the scheduler at work on one Work object *)

\* the authors of the works Spec starts from: with and without a death date,
\* with a nationality that is a catalog code, one that is none, and without
SchedulerAuthorPool ==
    { a \in AuthorPool : a.name \in {Name_Stoker, Name_Wells, Name_Doe, Name_Crown} }

SchedulerAuthorLists == UNION { [1..n -> SchedulerAuthorPool] : n \in 0..MaxAuthors }

SchedulerCreationDates == { None, Date(1870, 5, 1), Date(1920, 3, 1), Date(1950, 1, 1) }

OverrideDates == { None, Date(1982, 12, 31), Date(2040, 1, 1) }

\* the catalog after initialize_default_jurisdictions(), and the same after
\* add_jurisdiction of a second jurisdiction with the code US (the name is
\* unique in the table, the code is not)
Catalogs ==
    { DefaultJurisdictions,
      Append(DefaultJurisdictions, Jurisdiction(7, "America", "US", 95, FALSE)) }

Init ==
    /\ \E authors \in SchedulerAuthorLists, creation_date \in SchedulerCreationDates,
          primary \in {None, <<US>>}, cache \in StatusCaches, id \in {NoId, 7} :
          work = Work(id, authors, creation_date, None, primary, cache[1], cache[2])
    /\ jurisdictions \in Catalogs
    /\ copyright_rules = DefaultRules
    /\ work_jurisdiction_status = <<>>
    /\ works = <<>>
    /\ table_authors = <<>>
    /\ current_date_override = None
    /\ env_CURRENT_DATE = None
    /\ call = NoCall

\* date_provider.set_current_date(new_date); None clears the override
SetCurrentDate(new_date) ==
    /\ current_date_override' = new_date
    /\ call' = Call("set_current_date", None, new_date, None)
    /\ UNCHANGED <<work, jurisdictions, copyright_rules, work_jurisdiction_status,
                   works, table_authors, env_CURRENT_DATE>>

\* scheduler.update_work_status(work); it returns the work it was given
UpdateWorkStatus ==
    LET updated == update_work_status(work, work_jurisdiction_status)
    IN /\ work' = updated.work
       /\ work_jurisdiction_status' = updated.table
       /\ call' = CallOnWork("update_work_status", work, None)
       /\ UNCHANGED <<jurisdictions, copyright_rules, works, table_authors,
                      current_date_override,
                      env_CURRENT_DATE>>

Next ==
    \/ \E new_date \in OverrideDates : SetCurrentDate(new_date)
    \/ UpdateWorkStatus

Spec == Init /\ [][Next]_vars

----------------------------------------------------------------------------
(* SpecDate: the current date under overrides and environment changes *)

\* the values of CURRENT_DATE the environment takes: unset, and the texts
\*   '2024-02-29'   a leap day
\*   '1982-12-31'   a day of the model
\*   '2031-1-5'     no leading zeros
\*   ' 2031-01-05 ' blanks around
\*   '+2031-1_0-05' a sign and an underscore
\*   '2025-02-30'   no such day
\*   '0000-01-01'   no such year
\*   '20310105'     one part
\*   '2031-01'      two parts
\*   '2031-01-05-1' four parts
\*   '2031-01-0x'   not a number
EnvTexts ==
    { None,
      <<"2", "0", "2", "4", "-", "0", "2", "-", "2", "9">>,
      <<"1", "9", "8", "2", "-", "1", "2", "-", "3", "1">>,
      <<"2", "0", "3", "1", "-", "1", "-", "5">>,
      <<" ", "2", "0", "3", "1", "-", "0", "1", "-", "0", "5", " ">>,
      <<"+", "2", "0", "3", "1", "-", "1", "_", "0", "-", "0", "5">>,
      <<"2", "0", "2", "5", "-", "0", "2", "-", "3", "0">>,
      <<"0", "0", "0", "0", "-", "0", "1", "-", "0", "1">>,
      <<"2", "0", "3", "1", "0", "1", "0", "5">>,
      <<"2", "0", "3", "1", "-", "0", "1">>,
      <<"2", "0", "3", "1", "-", "0", "1", "-", "0", "5", "-", "1">>,
      <<"2", "0", "3", "1", "-", "0", "1", "-", "0", "x">> }

DateOverrides == OverrideDates \cup { Date(2024, 2, 29) }

InitDate ==
    /\ work = Work(NoId, <<>>, None, None, None, "Unknown", <<>>)
    /\ jurisdictions = DefaultJurisdictions
    /\ copyright_rules = DefaultRules
    /\ work_jurisdiction_status = <<>>
    /\ works = <<>>
    /\ table_authors = <<>>
    /\ current_date_override = None
    /\ env_CURRENT_DATE = None
    /\ call = NoCall

\* the process environment changes: CURRENT_DATE is set or unset
SetEnvironment(env_date) ==
    /\ env_CURRENT_DATE' = env_date
    /\ call' = Call("environ", None, None, None)
    /\ UNCHANGED <<work, jurisdictions, copyright_rules, work_jurisdiction_status,
                   works, table_authors, current_date_override>>

\* date_provider.get_current_date()
GetCurrentDate ==
    /\ call' = Call("get_current_date", None, None, get_current_date)
    /\ UNCHANGED <<work, jurisdictions, copyright_rules, work_jurisdiction_status,
                   works, table_authors, current_date_override, env_CURRENT_DATE>>

NextDate ==
    \/ \E new_date \in DateOverrides : SetCurrentDate(new_date)
    \/ \E env_date \in EnvTexts : SetEnvironment(env_date)
    \/ GetCurrentDate

SpecDate == InitDate /\ [][NextDate]_vars

----------------------------------------------------------------------------
(* SpecAuthors: get_or_save_author called again and again *)

BirthDates == { None, Date(1866, 9, 21), Date(1900, 1, 1) }

DeathDates == { None, Date(1946, 8, 13) }

Nationalities == { None, <<"">>, <<"GB">>, <<"US">> }

\* what the callers know of one author at different times, a second author,
\* and an author without a name
AuthorArgs ==
    { AuthorRecord(NoId, "Wells", birth_date, death_date, nationality) :
        birth_date \in BirthDates, death_date \in DeathDates,
        nationality \in Nationalities }
    \cup { AuthorRecord(NoId, "Doe", None, death_date, nationality) :
             death_date \in DeathDates, nationality \in {None, <<"US">>} }
    \cup { AuthorRecord(NoId, NoStr, None, Date(1946, 8, 13), <<"GB">>) }

InitAuthors ==
    /\ work = Work(NoId, <<>>, None, None, None, "Unknown", <<>>)
    /\ jurisdictions = DefaultJurisdictions
    /\ copyright_rules = DefaultRules
    /\ work_jurisdiction_status = <<>>
    /\ works = <<>>
    /\ table_authors = <<>>
    /\ current_date_override = None
    /\ env_CURRENT_DATE = None
    /\ call = NoCall

\* database.get_or_save_author(author)
GetOrSaveAuthor(author) ==
    LET saved == get_or_save_author(table_authors, author)
    IN /\ table_authors' = saved.table
       /\ call' = CallOnAuthor("get_or_save_author", author, saved.result)
       /\ UNCHANGED <<work, jurisdictions, copyright_rules,
                      work_jurisdiction_status, works, current_date_override,
                      env_CURRENT_DATE>>

NextAuthors == \E author \in AuthorArgs : GetOrSaveAuthor(author)

SpecAuthors == InitAuthors /\ [][NextAuthors]_vars

----------------------------------------------------------------------------
(* SpecJurisdictions: add_jurisdiction called again and again *)

\* a jurisdiction of the default catalog under its name, new names, codes the
\* catalog has and one it has not, and a jurisdiction without a name
JurisdictionsToAdd ==
    { Jurisdiction(NoId, name, code, term, FALSE) :
        name \in {"Canada", "America", "Other"},
        code \in {NoStr, "US", "CA", "XX"}, term \in {50, 95} }
    \cup { Jurisdiction(NoId, NoStr, "US", 70, FALSE) }

InitJurisdictions ==
    /\ work = Work(NoId, <<>>, None, None, None, "Unknown", <<>>)
    /\ jurisdictions \in { <<>>, DefaultJurisdictions }
    /\ copyright_rules = <<>>
    /\ work_jurisdiction_status = <<>>
    /\ works = <<>>
    /\ table_authors = <<>>
    /\ current_date_override = None
    /\ env_CURRENT_DATE = None
    /\ call = NoCall

\* database.add_jurisdiction(jurisdiction)
AddJurisdiction(jurisdiction) ==
    LET added == add_jurisdiction(jurisdictions, jurisdiction)
    IN /\ jurisdictions' = added.table
       /\ call' = Call("add_jurisdiction", <<jurisdiction>>, None, added.result)
       /\ UNCHANGED <<work, copyright_rules, work_jurisdiction_status, works,
                      table_authors, current_date_override, env_CURRENT_DATE>>

NextJurisdictions ==
    \E jurisdiction \in JurisdictionsToAdd : AddJurisdiction(jurisdiction)

SpecJurisdictions == InitJurisdictions /\ [][NextJurisdictions]_vars

----------------------------------------------------------------------------
(* SpecMulti: calculate_multi_jurisdiction_status and the rows it writes *)

\* rows that are in work_jurisdiction_status before the call: one of work 7
\* under Canada, one of another work, one of work 7 under a jurisdiction that
\* is not in the lists
StoredStatuses ==
    << StatusRow(7, 3, "Unknown", None),
       StatusRow(8, 1, "Copyrighted", isoformat(Date(2050, 12, 31))),
       StatusRow(7, 9, "Public Domain", isoformat(Date(1923, 1, 1))) >>

\* the lists a caller passes: none (all of the catalog), a list with a
\* jurisdiction without code, one with a jurisdiction without id, and lists
\* in which two jurisdictions share a code or an id
JurisdictionLists ==
    { <<>>,
      <<CA, Jurisdiction(NoId, "Other", NoStr, 50, FALSE)>>,
      <<Jurisdiction(NoId, "United States", "US", 70, TRUE), GB>>,
      <<CA, Jurisdiction(NoId, "Canada", "CA", 100, FALSE)>>,
      <<Jurisdiction(3, "Canada", "CA", 100, FALSE), MX, CA>> }

InitMulti ==
    /\ \E authors \in SchedulerAuthorLists, creation_date \in SchedulerCreationDates,
          cache \in StatusCaches, id \in {NoId, 7} :
          work = Work(id, authors, creation_date, None, None, cache[1], cache[2])
    /\ jurisdictions = DefaultJurisdictions
    /\ copyright_rules = DefaultRules
    /\ work_jurisdiction_status = StoredStatuses
    /\ works = <<>>
    /\ table_authors = <<>>
    /\ current_date_override = None
    /\ env_CURRENT_DATE = None
    /\ call = NoCall

\* scheduler.calculate_multi_jurisdiction_status(work, jurisdictions)
CalculateMultiJurisdictionStatus(js) ==
    LET multi == calculate_multi_jurisdiction_status(work, js, work_jurisdiction_status)
    IN /\ work_jurisdiction_status' = multi.table
       /\ call' = CallOnStore("calculate_multi_jurisdiction_status", js,
                              work_jurisdiction_status, multi.status_map)
       /\ UNCHANGED <<work, jurisdictions, copyright_rules, works, table_authors,
                      current_date_override, env_CURRENT_DATE>>

NextMulti ==
    \E js \in JurisdictionLists : CalculateMultiJurisdictionStatus(js)

SpecMulti == InitMulti /\ [][NextMulti]_vars

----------------------------------------------------------------------------
(* SpecDays: get_days_until_expiry on a work as built or as loaded from the  *)
(* works table, where an expiry computed earlier may be stored               *)

StoredExpiryDates == { None, Date(1999, 12, 31) }

DaysJurisdictionArgs == { None, <<US>>, <<CA>>, <<GB>> }

InitDays ==
    /\ \E authors \in SchedulerAuthorLists, creation_date \in SchedulerCreationDates,
          cache \in StatusCaches, expiry \in StoredExpiryDates :
          work = Work(NoId, authors, creation_date, expiry, None, cache[1], cache[2])
    /\ jurisdictions = DefaultJurisdictions
    /\ copyright_rules = DefaultRules
    /\ work_jurisdiction_status = <<>>
    /\ works = <<>>
    /\ table_authors = <<>>
    /\ current_date_override = None
    /\ env_CURRENT_DATE = None
    /\ call = NoCall

\* scheduler.get_days_until_expiry(work, jurisdiction, current_date)
GetDaysUntilExpiry(jurisdiction, current_date) ==
    LET days == get_days_until_expiry(work, jurisdiction, current_date)
    IN /\ work' = days.work
       /\ call' = CallWithArgsOnWork("get_days_until_expiry", jurisdiction,
                                     current_date, work, days.result)
       /\ UNCHANGED <<jurisdictions, copyright_rules, work_jurisdiction_status,
                      works, table_authors, current_date_override, env_CURRENT_DATE>>

NextDays ==
    \E jurisdiction \in DaysJurisdictionArgs, current_date \in Dates \cup {None} :
        GetDaysUntilExpiry(jurisdiction, current_date)

SpecDays == InitDays /\ [][NextDays]_vars

----------------------------------------------------------------------------
(* SpecWorks: get_works_by_status_in_jurisdiction over the works table *)

MaxWorks == 2

\* an author as stored: the death date is the text save_work wrote
StoredAuthor(a) ==
    Author(a.name,
           IF a.death_date # None THEN isoformat(a.death_date) ELSE None,
           a.nationality)

\* rows save_work has written; the status column is what it was at that time
StoredWorks ==
    { WorkRow(7, "Dracula",
              <<StoredAuthor(Author(Name_Stoker, Date(1912, 4, 20), "GB"))>>,
              isoformat(Date(1920, 3, 1)), isoformat(Date(1982, 12, 31)),
              "Public Domain"),
      WorkRow(8, "Metropolis",
              <<StoredAuthor(Author(Name_Doe, None, "US"))>>,
              isoformat(Date(1950, 1, 1)), None, "Copyrighted"),
      WorkRow(9, "The Time Machine",
              <<StoredAuthor(Author(Name_Wells, Date(1946, 8, 13), NoStr))>>,
              None, None, "Copyrighted"),
      WorkRow(10, "Untitled", <<>>, None, None, "Unknown") }

\* the works table: up to MaxWorks rows, in any insertion order, ids distinct
WorkTables ==
    { t \in UNION { [1..n -> StoredWorks] : n \in 0..MaxWorks } :
        \A i, k \in 1..Len(t) : i # k => t[i].id # t[k].id }

FilterCodes == { "US", "CA", "XX", NoStr }

InitWorks ==
    /\ work = Work(NoId, <<>>, None, None, None, "Unknown", <<>>)
    /\ jurisdictions \in Catalogs
    /\ copyright_rules = DefaultRules
    /\ work_jurisdiction_status = StoredStatuses
    /\ works \in WorkTables
    /\ table_authors = <<>>
    /\ current_date_override = None
    /\ env_CURRENT_DATE = None
    /\ call = NoCall

\* scheduler.get_works_by_status_in_jurisdiction(jurisdiction_code, status)
GetWorksByStatusInJurisdiction(jurisdiction_code, status) ==
    /\ call' = CallWithFilter("get_works_by_status_in_jurisdiction",
                              jurisdiction_code, status,
                              get_works_by_status_in_jurisdiction(jurisdiction_code, status))
    /\ UNCHANGED <<work, jurisdictions, copyright_rules, work_jurisdiction_status,
                   works, table_authors, current_date_override, env_CURRENT_DATE>>

NextWorks ==
    \/ \E new_date \in OverrideDates : SetCurrentDate(new_date)
    \/ \E jurisdiction_code \in FilterCodes, status \in Statuses :
          GetWorksByStatusInJurisdiction(jurisdiction_code, status)

SpecWorks == InitWorks /\ [][NextWorks]_vars

----------------------------------------------------------------------------
(* SpecScheduler: every function of the scheduler, on works with missing or  *)
(* partial data, with a catalog, a rule table and a works table that may be  *)
(* empty                                                                     *)

\* authors with partial data: no death date, or no nationality
PartialAuthorPool ==
    { a \in AuthorPool : a.name \in {Name_Doe, Name_Wells} }

PartialAuthorLists == UNION { [1..n -> PartialAuthorPool] : n \in 0..MaxAuthors }

\* no jurisdiction, a row of the catalog, a jurisdiction without id and code,
\* and one whose id is in no table (no rules)
SchedulerJurisdictionArgs ==
    { None, <<US>>,
      <<Jurisdiction(NoId, "Other", NoStr, 50, TRUE)>>,
      <<Jurisdiction(9, "Elsewhere", "US", 70, TRUE)>> }

SchedulerDates == { None, Date(1982, 12, 31) }

SchedulerLists == { <<>>, <<CA, Jurisdiction(NoId, "Other", NoStr, 50, TRUE)>> }

SchedulerWorkTable ==
    << WorkRow(10, "Untitled", <<>>, None, None, "Unknown"),
       WorkRow(7, "Dracula",
               <<StoredAuthor(Author(Name_Stoker, Date(1912, 4, 20), "GB"))>>,
               isoformat(Date(1920, 3, 1)), isoformat(Date(1982, 12, 31)),
               "Public Domain") >>

InitScheduler ==
    /\ \E authors \in PartialAuthorLists, creation_date \in {None, Date(1920, 3, 1)},
          id \in {NoId, 7},
          cache \in {<<"Unknown", <<>>>>, <<"Unknown", ("CA" :> "Unknown")>>} :
          work = Work(id, authors, creation_date, None, None, cache[1], cache[2])
    /\ \/ /\ jurisdictions = DefaultJurisdictions
          /\ copyright_rules = DefaultRules
          /\ works = SchedulerWorkTable
       \/ /\ jurisdictions = <<>>
          /\ copyright_rules = <<>>
          /\ works = <<>>
    /\ table_authors = <<>>
    /\ work_jurisdiction_status = StoredStatuses
    /\ current_date_override = None
    /\ env_CURRENT_DATE = None
    /\ call = NoCall

NextScheduler ==
    \/ \E jurisdiction \in SchedulerJurisdictionArgs :
          \/ CalculateExpiry(jurisdiction)
          \/ CalculateStandardExpiry(jurisdiction)
          \/ ApplySpecialRules(jurisdiction)
    \/ \E jurisdiction \in SchedulerJurisdictionArgs, current_date \in SchedulerDates :
          \/ DetermineStatus(jurisdiction, current_date)
          \/ GetDaysUntilExpiry(jurisdiction, current_date)
    \/ \E js \in SchedulerLists : CalculateMultiJurisdictionStatus(js)
    \/ UpdateWorkStatus
    \/ \E jurisdiction_code \in {"US", "XX"}, status \in Statuses :
          GetWorksByStatusInJurisdiction(jurisdiction_code, status)

SpecScheduler == InitScheduler /\ [][NextScheduler]_vars

----------------------------------------------------------------------------
(* SpecSticky: one Work object over time: the scheduler is called on it, its  *)
(* authors and dates are edited, the date moves and the catalog changes      *)

StickyAuthorLists == { <<>>, <<Author(Name_Wells, Date(1946, 8, 13), NoStr)>> }

StickyCreationDates == { None, Date(1920, 3, 1) }

\* a day before and a day after the expiry dates of the works
StickyDates == { Date(1982, 12, 31), Date(2040, 1, 1) }

\* a work without statuses, and one that carries an entry
StickyCaches ==
    { cache \in StatusCaches : cache[1] = "Unknown" }

\* Canada stored again under another code, and under its own
CatalogChanges ==
    { Jurisdiction(NoId, "Canada", "XX", 50, FALSE),
      Jurisdiction(NoId, "Canada", "CA", 50, FALSE) }

InitSticky ==
    /\ \E authors \in StickyAuthorLists, cache \in StickyCaches :
          work = Work(NoId, authors, None, None, None, cache[1], cache[2])
    /\ jurisdictions = DefaultJurisdictions
    /\ copyright_rules = DefaultRules
    /\ work_jurisdiction_status = <<>>
    /\ works = <<>>
    /\ table_authors = <<>>
    /\ current_date_override = None
    /\ env_CURRENT_DATE = None
    /\ call = NoCall

\* the caller assigns work.authors and work.creation_date
EditWork(authors, creation_date) ==
    /\ work' = [work EXCEPT !.authors = authors, !.creation_date = creation_date]
    /\ call' = CallOnWork("edit", work, None)
    /\ UNCHANGED <<jurisdictions, copyright_rules, work_jurisdiction_status, works,
                   table_authors, current_date_override, env_CURRENT_DATE>>

NextSticky ==
    \/ \E new_date \in StickyDates : SetCurrentDate(new_date)
    \/ \E authors \in StickyAuthorLists, creation_date \in StickyCreationDates :
          EditWork(authors, creation_date)
    \/ \E jurisdiction \in CatalogChanges : AddJurisdiction(jurisdiction)
    \/ UpdateWorkStatus
    \/ \E jurisdiction \in {None, <<CA>>} : DetermineStatus(jurisdiction, None)
    \/ CalculateMultiJurisdictionStatus(<<>>)

SpecSticky == InitSticky /\ [][NextSticky]_vars

----------------------------------------------------------------------------
(* SpecRows: the rows calculate_multi_jurisdiction_status writes for a saved *)
(* work, with or without statuses it carries, while the current date changes *)

\* all of the catalog, a list with a jurisdiction that has no code and no id,
\* and a list of two
RowLists ==
    { <<>>,
      <<CA, Jurisdiction(NoId, "Other", NoStr, 50, FALSE)>>,
      <<US, GB>> }

InitRows ==
    /\ \E authors \in StickyAuthorLists, creation_date \in StickyCreationDates,
          cache \in StatusCaches :
          work = Work(7, authors, creation_date, None, None, cache[1], cache[2])
    /\ jurisdictions = DefaultJurisdictions
    /\ copyright_rules = DefaultRules
    /\ work_jurisdiction_status = <<>>
    /\ works = <<>>
    /\ table_authors = <<>>
    /\ current_date_override = None
    /\ env_CURRENT_DATE = None
    /\ call = NoCall

NextRows ==
    \/ \E new_date \in StickyDates : SetCurrentDate(new_date)
    \/ UpdateWorkStatus
    \/ \E js \in RowLists : CalculateMultiJurisdictionStatus(js)

SpecRows == InitRows /\ [][NextRows]_vars

----------------------------------------------------------------------------
(* Claims about the expiry functions, checked under SpecExpiry *)

IsDec31(dt) == dt # None /\ dt[2] = 12 /\ dt[3] = 31

DeathYears(authors) ==
    { Year(authors[i].death_date) :
        i \in { k \in 1..Len(authors) : authors[k].death_date # None } }

MaxOf(S) == CHOOSE x \in S : \A y \in S : y <= x

\* the jurisdiction C1 names: j if given, else the primary one if set, else none
EffectiveOf(w, jurisdiction) ==
    IF jurisdiction # None THEN jurisdiction
    ELSE IF w.primary_jurisdiction # None THEN w.primary_jurisdiction
    ELSE None

SpecialOf(w, effective) ==
    IF effective # None /\ effective[1].has_special_rules
    THEN apply_special_rules(w, effective[1])
    ELSE None

\* C1: calculate_expiry(work, j) runs under j if given, else under
\* work.primary_jurisdiction if set, else under no jurisdiction; when that
\* jurisdiction has has_special_rules and apply_special_rules yields a date,
\* that date is the result, and in every other case the result is
\* calculate_standard_expiry(work, effective jurisdiction).
C1_SpecialRulesTakePrecedence ==
    call.op = "calculate_expiry" =>
        LET effective == EffectiveOf(work, call.jurisdiction)
            special == SpecialOf(work, effective)
        IN call.result = IF special # None THEN special
                         ELSE calculate_standard_expiry(work, effective)

\* C1 witness: US with the published_before_1923 rule, a work of 1920 whose
\* sole author died in 1912: 1923-01-01 is returned although the standard
\* calculation gives the later 1982-12-31.
C1_Witness ==
    /\ call.op = "calculate_expiry"
    /\ call.jurisdiction = <<US>>
    /\ Len(work.authors) = 1
    /\ work.authors[1].death_date = Date(1912, 4, 20)
    /\ work.creation_date = Date(1920, 3, 1)
    /\ calculate_standard_expiry(work, <<US>>) = Date(1982, 12, 31)
    /\ call.result = Date(1923, 1, 1)

\* C2 as stated: calculate_expiry returns either absent or a date on
\* December 31.
C2_AlwaysDec31 ==
    call.op = "calculate_expiry" => (call.result = None \/ IsDec31(call.result))

\* C2, amended: calculate_expiry returns absent, a date on December 31, or
\* the fixed date 1923-01-01; the last only when the effective jurisdiction
\* has code US and special rules and the work was created before 1923.
C2_Dec31OrFixed1923 ==
    call.op = "calculate_expiry" =>
        \/ call.result = None
        \/ IsDec31(call.result)
        \/ /\ call.result = Date(1923, 1, 1)
           /\ EffectiveOf(work, call.jurisdiction) # None
           /\ EffectiveOf(work, call.jurisdiction)[1].code = "US"
           /\ EffectiveOf(work, call.jurisdiction)[1].has_special_rules
           /\ work.creation_date # None
           /\ Year(work.creation_date) < 1923

\* C2 witness: no jurisdiction given, primary jurisdiction US, a work created
\* before 1923: calculate_expiry returns 1923-01-01.
C2_Witness ==
    /\ call.op = "calculate_expiry"
    /\ call.jurisdiction = None
    /\ work.primary_jurisdiction = <<US>>
    /\ call.result = Date(1923, 1, 1)

\* C3: for a work with at least one author that has a death date,
\* calculate_standard_expiry(work, j) is December 31 of the latest death year
\* plus j.term_years_after_death (plus 70 without a jurisdiction), whatever
\* the other authors and the creation date are.
C3_LifePlusTerm ==
    (call.op = "calculate_standard_expiry" /\ DeathYears(work.authors) # {}) =>
        call.result =
            Date(MaxOf(DeathYears(work.authors))
                   + (IF call.jurisdiction # None
                      THEN call.jurisdiction[1].term_years_after_death
                      ELSE 70),
                 12, 31)

\* C3 witness: two authors, the later death first, the second without a death
\* date, a creation date set, under Mexico (life + 100).
C3_Witness ==
    /\ call.op = "calculate_standard_expiry"
    /\ call.jurisdiction = <<MX>>
    /\ Len(work.authors) = 2
    /\ work.authors[1].death_date = Date(1946, 8, 13)
    /\ work.authors[2].death_date = None
    /\ work.creation_date # None
    /\ call.result = Date(2046, 12, 31)

NoDeathDateButCreation ==
    /\ call.op = "calculate_standard_expiry"
    /\ DeathYears(work.authors) = {}
    /\ work.creation_date # None

\* C4 as stated: with no author death date and a creation date,
\* calculate_standard_expiry is December 31 of creation year + T, T = 95 for
\* US, 70 for EU and 95 in every other case.
C4_FallbackTerm95Otherwise ==
    NoDeathDateButCreation =>
        call.result =
            Date(Year(work.creation_date)
                   + (IF call.jurisdiction # None /\ call.jurisdiction[1].code = "US"
                      THEN 95
                      ELSE IF call.jurisdiction # None /\ call.jurisdiction[1].code = "EU"
                      THEN 70
                      ELSE 95),
                 12, 31)

\* C4, amended: T is 95 for US, 70 for EU, the jurisdiction's
\* term_years_after_death for any other jurisdiction, and 95 without a
\* jurisdiction.
C4_FallbackTerm ==
    NoDeathDateButCreation =>
        call.result =
            Date(Year(work.creation_date)
                   + (IF call.jurisdiction = None THEN 95
                      ELSE IF call.jurisdiction[1].code = "US" THEN 95
                      ELSE IF call.jurisdiction[1].code = "EU" THEN 70
                      ELSE call.jurisdiction[1].term_years_after_death),
                 12, 31)

\* C4 witness: no death date, created 1950, under Canada (life + 50):
\* 2000-12-31.
C4_Witness ==
    /\ NoDeathDateButCreation
    /\ call.jurisdiction = <<CA>>
    /\ work.creation_date = Date(1950, 1, 1)
    /\ call.result = Date(2000, 12, 31)

\* C5 as stated: with a creation date and no author death date, for every
\* jurisdiction j, calculate_standard_expiry(work, j) is December 31 of
\* creation year + j.term_years_after_death.
C5_CreationPlusTermEveryJurisdiction ==
    (NoDeathDateButCreation /\ call.jurisdiction # None) =>
        call.result =
            Date(Year(work.creation_date)
                   + call.jurisdiction[1].term_years_after_death, 12, 31)

\* C5, amended: that holds for every jurisdiction whose code is neither US nor
\* EU; under US the term is 95 and under EU it is 70, whatever
\* term_years_after_death is.
C5_CreationPlusTermOutsideUSandEU ==
    (NoDeathDateButCreation /\ call.jurisdiction # None) =>
        LET j == call.jurisdiction[1]
        IN /\ j.code \notin {"US", "EU"} =>
                call.result = Date(Year(work.creation_date)
                                     + j.term_years_after_death, 12, 31)
           /\ j.code = "US" => Year(call.result) = Year(work.creation_date) + 95
           /\ j.code = "EU" => Year(call.result) = Year(work.creation_date) + 70

\* C5 witness: authors without a death date, created 1980, under Mexico
\* (life + 100): 2080-12-31.
C5_Witness ==
    /\ NoDeathDateButCreation
    /\ call.jurisdiction = <<MX>>
    /\ work.authors # <<>>
    /\ work.creation_date = Date(1980, 9, 9)
    /\ call.result = Date(2080, 12, 31)

\* C6: calculate_standard_expiry returns absent exactly when no author has a
\* death date and the work has no creation date (a work without authors
\* included); with any author death date or a creation date it returns a date.
C6_AbsentIffNoDates ==
    call.op = "calculate_standard_expiry" =>
        (call.result = None <=>
            (DeathYears(work.authors) = {} /\ work.creation_date = None))

\* C6 witness: an author with a death date beside one without, no creation
\* date: a date is returned.
C6_Witness ==
    /\ call.op = "calculate_standard_expiry"
    /\ Len(work.authors) = 2
    /\ work.authors[1].death_date = None
    /\ work.authors[2].death_date # None
    /\ work.creation_date = None
    /\ call.result # None

\* C6, the absent side: no authors and no creation date.
C6_WitnessAbsent ==
    /\ call.op = "calculate_standard_expiry"
    /\ work.authors = <<>>
    /\ work.creation_date = None
    /\ call.result = None

----------------------------------------------------------------------------
(* Claims about the status of a work *)

ZeroAuthorsNoCreationDate(w) == w.authors = <<>> /\ w.creation_date = None

AllUnknown(by_jurisdiction) ==
    \A code \in DOMAIN by_jurisdiction : by_jurisdiction[code] = "Unknown"

\* determine_status(w, jurisdiction) has a stored value to return
HasCachedValue(w, jurisdiction) ==
    \/ jurisdiction = None /\ w.status # "Unknown"
    \/ jurisdiction # None /\ jurisdiction[1].code \in DOMAIN w.status_by_jurisdiction

CachedValue(w, jurisdiction) ==
    IF jurisdiction = None THEN w.status
    ELSE w.status_by_jurisdiction[jurisdiction[1].code]

\* C7 as stated: for a work with zero authors and no creation date, for every
\* jurisdiction (or none) and every current date, calculate_expiry is absent
\* and determine_status returns 'Unknown'; after update_work_status such a
\* work has status 'Unknown' and every status_by_jurisdiction value 'Unknown'.
C7_NoDataIsAlwaysUnknown ==
    /\ ZeroAuthorsNoCreationDate(work) =>
          \A jurisdiction \in JurisdictionArgs, current_date \in Dates \cup {None} :
              /\ calculate_expiry(work, jurisdiction) = None
              /\ determine_status(work, jurisdiction, current_date) = "Unknown"
    /\ (call.op = "update_work_status" /\ ZeroAuthorsNoCreationDate(call.before)) =>
          /\ work.status = "Unknown"
          /\ AllUnknown(work.status_by_jurisdiction)

\* C7, amended: for a work with zero authors and no creation date, for every
\* jurisdiction (or none) and every current date, calculate_expiry is absent,
\* and determine_status returns 'Unknown' unless it returns a stored value
\* (work.status when no jurisdiction is given and it is not 'Unknown', or the
\* status_by_jurisdiction entry of the jurisdiction's code); after
\* update_work_status such a work has status 'Unknown' and every
\* status_by_jurisdiction value 'Unknown' provided it entered with status
\* 'Unknown' and no status_by_jurisdiction value other than 'Unknown'.
C7_NoDataIsUnknownUnlessCached ==
    /\ ZeroAuthorsNoCreationDate(work) =>
          \A jurisdiction \in JurisdictionArgs, current_date \in Dates \cup {None} :
              /\ calculate_expiry(work, jurisdiction) = None
              /\ determine_status(work, jurisdiction, current_date) =
                    IF HasCachedValue(work, jurisdiction)
                    THEN CachedValue(work, jurisdiction)
                    ELSE "Unknown"
    /\ (/\ call.op = "update_work_status"
        /\ ZeroAuthorsNoCreationDate(call.before)
        /\ call.before.status = "Unknown"
        /\ AllUnknown(call.before.status_by_jurisdiction)) =>
          /\ work.copyright_expiry_date = None
          /\ work.status = "Unknown"
          /\ AllUnknown(work.status_by_jurisdiction)

\* C7 witness: update_work_status has run, under an overridden current date,
\* on a work without authors and creation date that carried no status, and
\* left 'Unknown' for the work and for each of the six jurisdictions.
C7_Witness ==
    /\ call.op = "update_work_status"
    /\ ZeroAuthorsNoCreationDate(call.before)
    /\ call.before.status = "Unknown"
    /\ call.before.status_by_jurisdiction = <<>>
    /\ current_date_override = Date(2040, 1, 1)
    /\ work.status = "Unknown"
    /\ DOMAIN work.status_by_jurisdiction = {"US", "EU", "CA", "GB", "JP", "MX"}
    /\ AllUnknown(work.status_by_jurisdiction)

\* the current date a determine_status call compares with
TodayOf(current_date) ==
    IF current_date = None THEN get_current_date ELSE current_date

\* C8: when determine_status has no stored value to return and
\* calculate_expiry(work, jurisdiction) yields a date, the result is
\* 'Public Domain' if expiry <= current date (equality included) and
\* 'Copyrighted' otherwise.
C8_StatusFromExpiry ==
    (/\ call.op = "determine_status"
     /\ ~HasCachedValue(work, call.jurisdiction)
     /\ calculate_expiry(work, call.jurisdiction) # None) =>
        LET expiry == calculate_expiry(work, call.jurisdiction)
            today == TodayOf(call.current_date)
        IN /\ (expiry = today \/ DateLT(expiry, today)) => call.result = "Public Domain"
           /\ DateLT(today, expiry) => call.result = "Copyrighted"

\* C8 witness: the sole author died in 1912, life + 70 under GB with no
\* matching special rule: expiry 1982-12-31, 'Public Domain' on that very day.
C8_Witness ==
    /\ call.op = "determine_status"
    /\ ~HasCachedValue(work, call.jurisdiction)
    /\ call.jurisdiction = <<GB>>
    /\ Len(work.authors) = 1
    /\ work.authors[1].death_date = Date(1912, 4, 20)
    /\ apply_special_rules(work, GB) = None
    /\ calculate_expiry(work, <<GB>>) = Date(1982, 12, 31)
    /\ call.current_date = Date(1982, 12, 31)
    /\ call.result = "Public Domain"

\* C9: with no jurisdiction and work.status not 'Unknown', determine_status
\* returns work.status; with a jurisdiction whose code is a key of
\* work.status_by_jurisdiction it returns that entry, whatever work.status,
\* the current date and the work's dates and authors are.
C9_CachedValuesReturned ==
    call.op = "determine_status" =>
        /\ (call.jurisdiction = None /\ work.status # "Unknown") =>
              call.result = work.status
        /\ (/\ call.jurisdiction # None
            /\ call.jurisdiction[1].code \in DOMAIN work.status_by_jurisdiction) =>
              call.result = work.status_by_jurisdiction[call.jurisdiction[1].code]

\* C9 witness: the US entry says 'Copyrighted' while work.status says 'Public
\* Domain' and the expiry computed for US lies before the current date: the
\* entry is returned.
C9_Witness ==
    /\ call.op = "determine_status"
    /\ call.jurisdiction = <<US>>
    /\ work.status = "Public Domain"
    /\ work.status_by_jurisdiction["US"] = "Copyrighted"
    /\ call.current_date = Date(2040, 1, 1)
    /\ calculate_expiry(work, <<US>>) = Date(1923, 1, 1)
    /\ call.result = "Copyrighted"

\* C10: determine_status is monotone in time: if it returns 'Public Domain'
\* for a work, a jurisdiction and a date d1, it returns 'Public Domain' for
\* the same work and jurisdiction and every date d2 >= d1.
C10_MonotoneInTime ==
    (call.op = "determine_status" /\ call.result = "Public Domain") =>
        \A d2 \in Dates \cup {_DEFAULT_DATE} :
            DateLE(TodayOf(call.current_date), d2) =>
                determine_status(work, call.jurisdiction, d2) = "Public Domain"

\* C10 witness: 'Public Domain' computed from an expiry, on the day of the
\* expiry, with later dates to compare with.
C10_Witness ==
    /\ call.op = "determine_status"
    /\ ~HasCachedValue(work, call.jurisdiction)
    /\ call.current_date = Date(1982, 12, 31)
    /\ calculate_expiry(work, call.jurisdiction) = Date(1982, 12, 31)
    /\ call.result = "Public Domain"
    /\ determine_status(work, call.jurisdiction, Date(1982, 12, 30)) = "Copyrighted"
    /\ determine_status(work, call.jurisdiction, Date(2040, 1, 1)) = "Public Domain"

\* C11: when determine_status has no stored value to return and no expiry is
\* computable, it returns 'Public Domain' if creation_date.year < 1875, else
\* 'Public Domain' if the jurisdiction code is US and creation_date.year <
\* 1927, else 'Unknown'.
C11_HistoricalFallback ==
    (/\ call.op = "determine_status"
     /\ ~HasCachedValue(work, call.jurisdiction)
     /\ calculate_expiry(work, call.jurisdiction) = None) =>
        call.result =
            IF work.creation_date # None /\ Year(work.creation_date) < 1875
            THEN "Public Domain"
            ELSE IF /\ call.jurisdiction # None
                    /\ call.jurisdiction[1].code = "US"
                    /\ work.creation_date # None
                    /\ Year(work.creation_date) < 1927
            THEN "Public Domain"
            ELSE "Unknown"

\* C11 witness: under US, an author without a death date, no creation date,
\* nothing stored: no expiry is computable and the result is 'Unknown'.
C11_Witness ==
    /\ call.op = "determine_status"
    /\ call.jurisdiction = <<US>>
    /\ ~HasCachedValue(work, call.jurisdiction)
    /\ work.authors # <<>>
    /\ calculate_expiry(work, call.jurisdiction) = None
    /\ call.result = "Unknown"

\* C11, the reach of the cut-off years: an expiry is computable for every work
\* that has a creation date, so a call that gets as far as the cut-off years
\* is a call on a work without a creation date.
C11_NoExpiryOnlyWithoutCreationDate ==
    (call.op = "determine_status" /\ calculate_expiry(work, call.jurisdiction) = None)
        => work.creation_date = None

----------------------------------------------------------------------------
(* Claims about calculate_multi_jurisdiction_status, checked under SpecMulti *)

\* the jurisdictions a call runs over: the list passed, the catalog if none
SuppliedTo(js) == IF js = <<>> THEN get_all_jurisdictions ELSE js

CodesOf(js) == { js[i].code : i \in { k \in 1..Len(js) : js[k].code # NoStr } }

\* the last jurisdiction of the list with that code
LastWithCode(js, code) ==
    js[MaxOf({ i \in 1..Len(js) : js[i].code = code })]

\* C12: calculate_multi_jurisdiction_status(work, jurisdictions) returns a map
\* whose key set is exactly the codes of the supplied jurisdictions that have
\* a code (the catalog's when none are passed); each value is
\* determine_status(work, the jurisdiction of that code), the last one
\* supplied where several share the code, and is one of the three statuses.
C12_MapOfSuppliedCodes ==
    call.op = "calculate_multi_jurisdiction_status" =>
        LET supplied == SuppliedTo(call.jurisdiction)
        IN /\ DOMAIN call.result = CodesOf(supplied)
           /\ \A code \in DOMAIN call.result :
                 /\ call.result[code] =
                       determine_status(work, <<LastWithCode(supplied, code)>>, None)
                 /\ call.result[code] \in Statuses

\* C12 witness: Canada and a jurisdiction without code are passed for a work
\* whose author died in 1946 and that carries nothing stored: the map has the
\* one key CA, with the status computed from life + 50.
C12_Witness ==
    /\ call.op = "calculate_multi_jurisdiction_status"
    /\ Len(call.jurisdiction) = 2
    /\ call.jurisdiction[1] = CA
    /\ call.jurisdiction[2].code = NoStr
    /\ work.status_by_jurisdiction = <<>>
    /\ Len(work.authors) = 1
    /\ work.authors[1].death_date = Date(1946, 8, 13)
    /\ DOMAIN call.result = {"CA"}
    /\ call.result["CA"] = "Public Domain"

\* C12, an empty call: the six codes of the catalog are the keys.
C12_WitnessCatalog ==
    /\ call.op = "calculate_multi_jurisdiction_status"
    /\ call.jurisdiction = <<>>
    /\ DOMAIN call.result = {"US", "EU", "CA", "GB", "JP", "MX"}

\* the positions of the supplied list for which a row is written
WrittenAt(w, js) ==
    { i \in 1..Len(js) : js[i].code # NoStr /\ w.id # NoId /\ js[i].id # NoId }

RowsWithKey(table, work_id, jurisdiction_id) ==
    { i \in 1..Len(table) : HasStatusKey(table[i], work_id, jurisdiction_id) }

KeysOfTable(table) ==
    { <<table[i].work_id, table[i].jurisdiction_id>> : i \in 1..Len(table) }

\* C13: during calculate_multi_jurisdiction_status, for each jurisdiction with
\* a code: if the work and the jurisdiction both have an id, the row keyed
\* (work_id, jurisdiction_id) holds afterwards the status computed for that
\* jurisdiction and calculate_expiry(work, jurisdiction) (of the last such
\* jurisdiction where several share the id), and it is the only row of that
\* key; if either id is missing nothing is written for it. The rows of other
\* keys are unchanged.
C13_StoreUpsert ==
    call.op = "calculate_multi_jurisdiction_status" =>
        LET supplied == SuppliedTo(call.jurisdiction)
            written == WrittenAt(work, supplied)
            keys == { <<work.id, supplied[i].id>> : i \in written }
            table == work_jurisdiction_status
        IN /\ \A i \in written :
                 LET last == MaxOf({ k \in written : supplied[k].id = supplied[i].id })
                     rows == RowsWithKey(table, work.id, supplied[i].id)
                 IN /\ Cardinality(rows) = 1
                    /\ \A r \in rows :
                          /\ table[r].status =
                                determine_status(work, <<supplied[last]>>, None)
                          /\ _parse_db_date(table[r].expiry_date) =
                                calculate_expiry(work, <<supplied[last]>>)
           /\ KeysOfTable(table) = KeysOfTable(call.before) \cup keys
           /\ \A r \in 1..Len(call.before) :
                 <<call.before[r].work_id, call.before[r].jurisdiction_id>> \notin keys
                     => \E q \in 1..Len(table) : table[q] = call.before[r]
           /\ Len(table) = Cardinality(KeysOfTable(table))

\* C13 witness: work 7 with Canada and a jurisdiction without id or code: the
\* row (7, 3) that was there is replaced by the computed status and expiry,
\* the rows (8, 1) and (7, 9) are as before and no row is added.
C13_Witness ==
    /\ call.op = "calculate_multi_jurisdiction_status"
    /\ work.id = 7
    /\ Len(call.jurisdiction) = 2
    /\ call.jurisdiction[1] = CA
    /\ call.jurisdiction[2].id = NoId
    /\ call.before = StoredStatuses
    /\ Len(work_jurisdiction_status) = 3
    /\ work_jurisdiction_status[1] =
          StatusRow(7, 3, "Public Domain", isoformat(Date(1996, 12, 31)))
    /\ work_jurisdiction_status[2] = StoredStatuses[2]
    /\ work_jurisdiction_status[3] = StoredStatuses[3]

\* C13, the work without id: nothing is written.
C13_WitnessNoId ==
    /\ call.op = "calculate_multi_jurisdiction_status"
    /\ work.id = NoId
    /\ call.jurisdiction = <<>>
    /\ DOMAIN call.result # {}
    /\ work_jurisdiction_status = call.before

----------------------------------------------------------------------------
(* Claims about update_work_status, checked under Spec *)

\* the work after one more call of update_work_status in this state
UpdatedAgain == update_work_status(work, work_jurisdiction_status).work

\* C14: update_work_status is idempotent: called again on the work it has just
\* updated, with the same current date and the same catalog, it leaves
\* work.status and work.status_by_jurisdiction as the first call set them,
\* even though the first call may have set primary_jurisdiction.
C14_Idempotent ==
    call.op = "update_work_status" =>
        /\ UpdatedAgain.status = work.status
        /\ UpdatedAgain.status_by_jurisdiction = work.status_by_jurisdiction

\* C14 witness: a work of 1920 by an author of nationality US without a death
\* date, updated on 1982-12-31: the call found no primary jurisdiction,
\* computed 'Copyrighted' from 1920 + 95 and set the primary jurisdiction to
\* US, under which the expiry is 1923-01-01; a second call keeps 'Copyrighted'.
C14_Witness ==
    /\ call.op = "update_work_status"
    /\ current_date_override = Date(1982, 12, 31)
    /\ call.before.status = "Unknown"
    /\ call.before.status_by_jurisdiction = <<>>
    /\ call.before.primary_jurisdiction = None
    /\ work.primary_jurisdiction = <<US>>
    /\ work.status = "Copyrighted"
    /\ calculate_expiry(work, None) = Date(1923, 1, 1)
    /\ UpdatedAgain.status = "Copyrighted"

\* C15: update_work_status sets work.copyright_expiry_date only when it is
\* unset, to calculate_expiry(work, None) as evaluated on entry, before the
\* call assigns a primary jurisdiction; an expiry that is set already is left
\* as it is.
C15_ExpirySetOnce ==
    call.op = "update_work_status" =>
        work.copyright_expiry_date =
            IF call.before.copyright_expiry_date = None
            THEN calculate_expiry(call.before, None)
            ELSE call.before.copyright_expiry_date

\* C15 witness: the expiry was unset and is now 2015-12-31, computed without
\* a jurisdiction, although the primary jurisdiction the same call assigned
\* gives 1923-01-01.
C15_Witness ==
    /\ call.op = "update_work_status"
    /\ call.before.copyright_expiry_date = None
    /\ call.before.primary_jurisdiction = None
    /\ work.primary_jurisdiction = <<US>>
    /\ work.copyright_expiry_date = Date(2015, 12, 31)
    /\ calculate_expiry(work, None) = Date(1923, 1, 1)

\* C15, the expiry that is set: a later call leaves 2015-12-31 although it
\* would now compute 1923-01-01.
C15_WitnessKept ==
    /\ call.op = "update_work_status"
    /\ call.before.copyright_expiry_date = Date(2015, 12, 31)
    /\ calculate_expiry(call.before, None) = Date(1923, 1, 1)
    /\ work.copyright_expiry_date = Date(2015, 12, 31)

\* the authors whose nationality is the code of a catalog jurisdiction
MatchingAuthors(authors, catalog) ==
    { i \in 1..Len(authors) :
        /\ authors[i].nationality # NoStr
        /\ \E k \in 1..Len(catalog) : catalog[k].code = authors[i].nationality }

MinOf(S) == CHOOSE x \in S : \A y \in S : x <= y

\* C16: if work.primary_jurisdiction is unset on entry, update_work_status
\* leaves it as the first jurisdiction, in the order of the catalog, whose
\* code is the nationality of the earliest author, in author order, whose
\* nationality is the code of any catalog jurisdiction, and unset when there
\* is no such author; a primary jurisdiction that is set on entry is kept.
C16_PrimaryFromNationality ==
    call.op = "update_work_status" =>
        LET catalog == get_all_jurisdictions
            matching == MatchingAuthors(call.before.authors, catalog)
        IN work.primary_jurisdiction =
              IF call.before.primary_jurisdiction # None
              THEN call.before.primary_jurisdiction
              ELSE IF matching = {} THEN None
              ELSE LET nationality == call.before.authors[MinOf(matching)].nationality
                       first == MinOf({ k \in 1..Len(catalog) :
                                          catalog[k].code = nationality })
                   IN <<catalog[first]>>

\* C16 witness: the first author has a nationality that is no catalog code,
\* the second has US, and the catalog has two jurisdictions of code US: the
\* one that comes first in the catalog (by name), added last, is chosen.
C16_Witness ==
    /\ call.op = "update_work_status"
    /\ call.before.primary_jurisdiction = None
    /\ Len(work.authors) = 2
    /\ work.authors[1].nationality = "XX"
    /\ work.authors[2].nationality = "US"
    /\ Len(jurisdictions) = 7
    /\ work.primary_jurisdiction = <<jurisdictions[7]>>

\* C16, author order before catalog order: authors of nationality US and GB,
\* in that order; GB comes first in the catalog, US is chosen.
C16_WitnessAuthorOrder ==
    /\ call.op = "update_work_status"
    /\ call.before.primary_jurisdiction = None
    /\ Len(work.authors) = 2
    /\ work.authors[1].nationality = "US"
    /\ work.authors[2].nationality = "GB"
    /\ jurisdictions = DefaultJurisdictions
    /\ work.primary_jurisdiction = <<US>>

----------------------------------------------------------------------------
(* Claims about get_days_until_expiry, checked under SpecDays *)

\* the expiry a get_days_until_expiry call works with: computed for the
\* jurisdiction given, else the one the work carries, else the one computed
\* without a jurisdiction
ExpiryUsed(w, jurisdiction) ==
    IF jurisdiction # None THEN calculate_expiry(w, jurisdiction)
    ELSE IF w.copyright_expiry_date # None THEN w.copyright_expiry_date
    ELSE calculate_expiry(w, None)

\* C17 as stated: get_days_until_expiry returns absent exactly when the
\* expiry is unknown or determine_status(work, jurisdiction, current_date) is
\* 'Public Domain', and an integer in every other case.
C17_AbsentIffUnknownOrPublicDomain ==
    call.op = "get_days_until_expiry" =>
        LET expiry == ExpiryUsed(call.before, call.jurisdiction)
            status == determine_status(call.before, call.jurisdiction, call.current_date)
        IN /\ call.result = None <=> (expiry = None \/ status = "Public Domain")
           /\ call.result # None => call.result[1] \in Int

\* C17, amended: get_days_until_expiry returns absent exactly when the expiry
\* is unknown, or determine_status(work, jurisdiction, current_date) is
\* 'Public Domain', or the expiry lies before the current date (a stored
\* status other than 'Public Domain', or a stored expiry, can go with it); in
\* every other case it returns the number of days from the current date to
\* the expiry, which is an integer >= 0.
C17_AbsentIffUnknownPublicDomainOrPast ==
    call.op = "get_days_until_expiry" =>
        LET expiry == ExpiryUsed(call.before, call.jurisdiction)
            status == determine_status(call.before, call.jurisdiction, call.current_date)
            today == TodayOf(call.current_date)
        IN /\ call.result = None <=>
                 \/ expiry = None
                 \/ status = "Public Domain"
                 \/ DateLT(expiry, today)
           /\ call.result # None =>
                 /\ call.result[1] \in Nat
                 /\ call.result[1] = DaysBetween(expiry, today)

\* C17 witness: no jurisdiction, the work carries the status 'Copyrighted'
\* and its author died in 1912, so the expiry is 1982-12-31; on 2040-01-01
\* the status returned is the stored 'Copyrighted', the expiry is known, and
\* the result is absent.
C17_Witness ==
    /\ call.op = "get_days_until_expiry"
    /\ call.jurisdiction = None
    /\ call.current_date = Date(2040, 1, 1)
    /\ call.before.status = "Copyrighted"
    /\ call.before.copyright_expiry_date = None
    /\ work.copyright_expiry_date = Date(1982, 12, 31)
    /\ determine_status(call.before, None, Date(2040, 1, 1)) = "Copyrighted"
    /\ call.result = None

\* C17, a number: one day before the expiry the result is 1.
C17_WitnessOneDay ==
    /\ call.op = "get_days_until_expiry"
    /\ call.current_date = Date(1982, 12, 30)
    /\ ExpiryUsed(call.before, call.jurisdiction) = Date(1982, 12, 31)
    /\ call.result = <<1>>

----------------------------------------------------------------------------
(* Claims about get_works_by_status_in_jurisdiction, checked under SpecWorks *)

\* the status of a work in a jurisdiction as the dates give it today, with
\* nothing read from what is stored
FreshStatus(w, j) ==
    LET expiry == calculate_expiry(w, <<j>>)
    IN IF expiry # None
       THEN (IF DateLE(expiry, get_current_date) THEN "Public Domain" ELSE "Copyrighted")
       ELSE "Unknown"

\* the positions of the catalog whose jurisdiction has that code
CatalogPositions(code) ==
    { k \in 1..Len(get_all_jurisdictions) : get_all_jurisdictions[k].code = code }

\* C18: get_works_by_status_in_jurisdiction(code, status) returns exactly the
\* works of get_all_works(), in that order, for which
\* determine_status(work, j) = status at the current date, j being the
\* (first) catalog jurisdiction of that code; the status is computed from the
\* work's dates, not read from stored per-jurisdiction statuses; for a code
\* of no catalog jurisdiction the result is empty.
C18_WorksByFreshStatus ==
    call.op = "get_works_by_status_in_jurisdiction" =>
        IF CatalogPositions(call.jurisdiction) = {}
        THEN call.result = <<>>
        ELSE LET j == get_all_jurisdictions[MinOf(CatalogPositions(call.jurisdiction))]
                 all == get_all_works
                 chosen == { i \in 1..Len(all) :
                               determine_status(all[i], <<j>>, None) = call.status }
             IN /\ Len(call.result) = Cardinality(chosen)
                /\ \A i \in chosen : \E r \in 1..Len(call.result) : call.result[r] = all[i]
                /\ \A r, q \in 1..Len(call.result) :
                      r < q => \E i, k \in chosen :
                                 i < k /\ call.result[r] = all[i] /\ call.result[q] = all[k]
                /\ \A i \in 1..Len(all) :
                      determine_status(all[i], <<j>>, None) = FreshStatus(all[i], j)

\* C18 witness: work 9 is stored as 'Copyrighted' and work 7 has the row
\* 'Unknown' for Canada in work_jurisdiction_status; the works that are
\* 'Public Domain' in Canada today are asked for, and both are returned, in
\* the order of their titles.
C18_Witness ==
    /\ call.op = "get_works_by_status_in_jurisdiction"
    /\ call.jurisdiction = "CA"
    /\ call.status = "Public Domain"
    /\ Len(works) = 2
    /\ works[1].id = 9 /\ works[1].status = "Copyrighted"
    /\ works[2].id = 7
    /\ \E r \in 1..Len(work_jurisdiction_status) :
          work_jurisdiction_status[r] = StatusRow(7, 3, "Unknown", None)
    /\ Len(call.result) = 2
    /\ call.result[1].id = 7
    /\ call.result[2].id = 9

\* C18, a code of no catalog jurisdiction: the result is empty although there
\* are works.
C18_WitnessUnknownCode ==
    /\ call.op = "get_works_by_status_in_jurisdiction"
    /\ call.jurisdiction = "XX"
    /\ call.status = "Unknown"
    /\ works # <<>>
    /\ call.result = <<>>

----------------------------------------------------------------------------
(* Claims about the scheduler as a whole, checked under SpecScheduler *)

\* a value date(...) can build, or None
IsDateOrNone(x) == x = None \/ (Len(x) = 3 /\ ValidDate(x[1], x[2], x[3]))

AllStatuses(status_map) ==
    \A code \in DOMAIN status_map : status_map[code] \in Statuses

\* a work the scheduler has no date for and that carries no status
NoData(w) ==
    /\ DeathYears(w.authors) = {}
    /\ w.creation_date = None
    /\ w.copyright_expiry_date = None
    /\ w.status = "Unknown"
    /\ AllUnknown(w.status_by_jurisdiction)

\* C19: every public function of the scheduler returns normally for a work
\* with missing or partial data (no authors, authors without dates, no
\* creation date, a jurisdiction without id, code or rules): its result is a
\* value of its return type, and for a work without data it is absent or
\* 'Unknown', never an error.
C19_ReturnsNormally ==
    /\ call.op \in {"calculate_expiry", "calculate_standard_expiry",
                     "apply_special_rules"} =>
          /\ IsDateOrNone(call.result)
          /\ NoData(work) => call.result = None
    /\ call.op = "determine_status" =>
          /\ call.result \in Statuses
          /\ NoData(work) => call.result = "Unknown"
    /\ call.op = "calculate_multi_jurisdiction_status" =>
          /\ AllStatuses(call.result)
          /\ NoData(work) => AllUnknown(call.result)
    /\ call.op = "update_work_status" =>
          /\ work.status \in Statuses
          /\ AllStatuses(work.status_by_jurisdiction)
          /\ IsDateOrNone(work.copyright_expiry_date)
          /\ NoData(call.before) => NoData(work)
    /\ call.op = "get_days_until_expiry" =>
          /\ call.result = None \/ (Len(call.result) = 1 /\ call.result[1] \in Nat)
          /\ IsDateOrNone(work.copyright_expiry_date)
          /\ NoData(call.before) => (call.result = None /\ NoData(work))
    /\ call.op = "get_works_by_status_in_jurisdiction" =>
          \A r \in 1..Len(call.result) :
              /\ call.result[r].status \in Statuses
              /\ IsDateOrNone(call.result[r].creation_date)

\* C19 witness: a work whose only author has neither death date nor
\* nationality known to the catalog, no creation date, under a jurisdiction
\* without id and code that claims special rules: calculate_expiry returns
\* absent.
C19_Witness ==
    /\ call.op = "calculate_expiry"
    /\ Len(work.authors) = 1
    /\ work.authors[1].death_date = None
    /\ work.creation_date = None
    /\ call.jurisdiction # None
    /\ call.jurisdiction[1].id = NoId
    /\ call.jurisdiction[1].code = NoStr
    /\ call.jurisdiction[1].has_special_rules
    /\ call.result = None

\* C19, the empty tables: update_work_status on a work without authors and
\* dates, with no jurisdiction in the catalog, returns with 'Unknown' and an
\* empty map.
C19_WitnessEmptyCatalog ==
    /\ call.op = "update_work_status"
    /\ jurisdictions = <<>>
    /\ call.before.authors = <<>>
    /\ NoData(call.before)
    /\ work.status = "Unknown"
    /\ work.status_by_jurisdiction = <<>>
    /\ work.copyright_expiry_date = None

\* the fields of a work other than the four update_work_status assigns
OtherFields(w) == <<w.id, w.authors, w.creation_date>>

\* the fields of a work other than copyright_expiry_date
AllButExpiry(w) ==
    <<w.id, w.authors, w.creation_date, w.primary_jurisdiction, w.status,
      w.status_by_jurisdiction>>

\* the rows of the table whose work is not the one given
RowsOfOtherWorks(table, work_id) ==
    SelectSeq(table, LAMBDA row : row.work_id # work_id)

\* what a step of the scheduler may change, by the function called
FrameOfCall ==
    /\ jurisdictions' = jurisdictions
    /\ copyright_rules' = copyright_rules
    /\ works' = works
    /\ call'.op \in {"calculate_expiry", "calculate_standard_expiry",
                      "apply_special_rules", "determine_status",
                      "get_works_by_status_in_jurisdiction"} =>
          /\ work' = work
          /\ work_jurisdiction_status' = work_jurisdiction_status
    /\ call'.op = "calculate_multi_jurisdiction_status" =>
          /\ work' = work
          /\ RowsOfOtherWorks(work_jurisdiction_status', work.id) =
                RowsOfOtherWorks(work_jurisdiction_status, work.id)
    /\ call'.op = "get_days_until_expiry" =>
          /\ AllButExpiry(work') = AllButExpiry(work)
          /\ work'.copyright_expiry_date # work.copyright_expiry_date =>
                (call'.jurisdiction = None /\ work.copyright_expiry_date = None)
          /\ work_jurisdiction_status' = work_jurisdiction_status
    /\ call'.op = "update_work_status" =>
          /\ OtherFields(work') = OtherFields(work)
          /\ RowsOfOtherWorks(work_jurisdiction_status', work.id) =
                RowsOfOtherWorks(work_jurisdiction_status, work.id)

\* C20: calculate_expiry, calculate_standard_expiry, apply_special_rules and
\* determine_status change neither the work nor the store;
\* calculate_multi_jurisdiction_status changes only per-jurisdiction store
\* rows and leaves the work unchanged; get_days_until_expiry changes at most
\* work.copyright_expiry_date, and only when called without a jurisdiction
\* while that field is unset; update_work_status changes only
\* copyright_expiry_date, status, status_by_jurisdiction and
\* primary_jurisdiction of the work. No call changes the catalog or the rules.
C20_Frames == [][FrameOfCall]_vars

\* C20 witness: get_days_until_expiry without a jurisdiction has set the
\* expiry that was unset, and nothing else of the work.
C20_Witness ==
    /\ call.op = "get_days_until_expiry"
    /\ call.jurisdiction = None
    /\ call.before.copyright_expiry_date = None
    /\ work.copyright_expiry_date # None
    /\ AllButExpiry(work) = AllButExpiry(call.before)

\* C20, with a jurisdiction: the expiry is computed and the work is as it was.
C20_WitnessWithJurisdiction ==
    /\ call.op = "get_days_until_expiry"
    /\ call.jurisdiction = <<US>>
    /\ calculate_expiry(work, <<US>>) # None
    /\ work.copyright_expiry_date = None
    /\ work = call.before

----------------------------------------------------------------------------
(* Claims about the current date, checked under SpecDate *)

\* the date get_current_date owes under an override and an environment value
ResolvedDate(override, env_date) ==
    IF override # None THEN override
    ELSE IF env_date # None /\ parse_env_date(env_date) # None
    THEN parse_env_date(env_date)
    ELSE _DEFAULT_DATE

CurrentDateStep ==
    /\ call'.op = "set_current_date" =>
          /\ current_date_override' = call'.current_date
          /\ env_CURRENT_DATE' = env_CURRENT_DATE
    /\ call'.op = "environ" => current_date_override' = current_date_override
    /\ call'.op = "get_current_date" =>
          /\ current_date_override' = current_date_override
          /\ env_CURRENT_DATE' = env_CURRENT_DATE
          /\ call'.result = ResolvedDate(current_date_override, env_CURRENT_DATE)

\* C21: after any sequence of set_current_date calls and environment changes,
\* get_current_date returns the most recently set override if one is set and
\* not cleared, otherwise the date parsed from CURRENT_DATE if it is present
\* and well-formed, otherwise 2025-04-30; an environment change never touches
\* the override, which only set_current_date replaces or clears.
C21_CurrentDateResolution == [][CurrentDateStep]_vars

\* C21 witness: with the override 1982-12-31 set and the environment then
\* changed to the well-formed 2024-02-29, get_current_date returns 1982-12-31.
C21_Witness ==
    /\ call.op = "get_current_date"
    /\ current_date_override = Date(1982, 12, 31)
    /\ parse_env_date(env_CURRENT_DATE) = Date(2024, 2, 29)
    /\ call.result = Date(1982, 12, 31)

\* C21, the environment layer: no override, '+2031-1_0-05' is read as
\* 2031-10-05.
C21_WitnessEnvironment ==
    /\ call.op = "get_current_date"
    /\ current_date_override = None
    /\ env_CURRENT_DATE = <<"+", "2", "0", "3", "1", "-", "1", "_", "0", "-", "0", "5">>
    /\ call.result = Date(2031, 10, 5)

\* C21, the default: no override and the malformed '2025-02-30' give 2025-04-30.
C21_WitnessMalformed ==
    /\ call.op = "get_current_date"
    /\ current_date_override = None
    /\ env_CURRENT_DATE = <<"2", "0", "2", "5", "-", "0", "2", "-", "3", "0">>
    /\ call.result = Date(2025, 4, 30)

----------------------------------------------------------------------------
(* Claims about the authors table, checked under SpecAuthors *)

\* a stored or offered value that is neither NULL nor the empty text
Present(value) == value # None /\ value # <<"">>

\* equal, or both without a value
SameValue(a, b) == a = b \/ (~Present(a) /\ ~Present(b))

MergedFields == { "birth_date", "death_date", "nationality" }

RowsNamed(table, name) == { i \in 1..Len(table) : table[i].name = name }

\* what get_or_save_author would offer for a column: the text it binds
Offered(author, column) ==
    IF column = "nationality" THEN author.nationality
    ELSE IF author[column] # None THEN isoformat(author[column]) ELSE None

FillOnlyNullsStep ==
    (call'.op = "get_or_save_author" /\ call'.result # None) =>
        LET name == call'.author.name
            old == RowsNamed(table_authors, name)
            new == RowsNamed(table_authors', name)
        IN /\ Cardinality(new) = 1
           /\ \A i \in old :
                 /\ i \in new
                 /\ \A column \in MergedFields :
                       Present(table_authors[i][column]) =>
                           table_authors'[i][column] = table_authors[i][column]
           /\ \A i \in new :
                 /\ call'.result.birth_date = _parse_db_date(table_authors'[i].birth_date)
                 /\ call'.result.death_date = _parse_db_date(table_authors'[i].death_date)
                 /\ SameValue(call'.result.nationality, table_authors'[i].nationality)

\* C22: after any sequence of get_or_save_author calls for the same name, a
\* stored birth_date, death_date or nationality that is non-null is never
\* replaced by a different value from a later call; a later call only fills
\* fields that are null, and the Author it returns carries the field values
\* of the stored row.
C22_FillOnlyNulls == [][FillOnlyNullsStep]_vars

\* the state the statement fails in: the row of Wells held the birth date
\* 1866-09-21 and no death date; a call offering 1900-01-01 and the death date
\* 1946-08-13 has left 1900-01-01 in the row and returned 1866-09-21
C22_Overwritten ==
    /\ call.op = "get_or_save_author"
    /\ call.author.birth_date = Date(1900, 1, 1)
    /\ call.author.death_date = Date(1946, 8, 13)
    /\ call.result # None
    /\ call.result.birth_date = Date(1866, 9, 21)
    /\ \E i \in RowsNamed(table_authors, "Wells") :
          table_authors[i].birth_date = isoformat(Date(1900, 1, 1))

\* what the calls do keep: one row per name, ids in insertion order, the rows
\* of other names untouched, a call that offers nothing for a null column
\* changes nothing, and every column ends as the offered value if one is
\* offered and the row is updated at all
MergeStep ==
    (call'.op = "get_or_save_author" /\ call'.result # None) =>
        LET name == call'.author.name
            old == RowsNamed(table_authors, name)
        IN /\ \A i \in 1..Len(table_authors) :
                 i \notin old => table_authors'[i] = table_authors[i]
           /\ \A i \in 1..Len(table_authors') : table_authors'[i].id = i
           /\ \A i \in old :
                 /\ call'.result.id = table_authors[i].id
                 /\ (\A column \in MergedFields :
                        Present(table_authors[i][column])
                          \/ ~Present(Offered(call'.author, column)))
                      => table_authors' = table_authors
                 /\ \A column \in MergedFields :
                       \/ table_authors'[i][column] = table_authors[i][column]
                       \/ table_authors'[i][column] = Offered(call'.author, column)

C22_Merge == [][MergeStep]_vars

----------------------------------------------------------------------------
(* Claims about the catalog of jurisdictions, checked under SpecJurisdictions *)

Distinct(table, column) ==
    \A i, k \in 1..Len(table) :
        (i # k /\ table[i][column] # NoStr) => table[i][column] # table[k][column]

\* C23 as stated: after any sequence of add_jurisdiction calls, no two stored
\* jurisdictions have the same non-null code.
C23_CodesUnique == Distinct(jurisdictions, "code")

\* C23: after any sequence of add_jurisdiction calls, no two stored
\* jurisdictions have the same name or the same id, and the row of the name
\* just added carries the code, term and special-rules flag of that call and
\* the id the call returned; the code of a row is whatever the last call for
\* its name gave, also when another row has it.
C23_NamesUnique ==
    /\ Distinct(jurisdictions, "name")
    /\ \A i \in 1..Len(jurisdictions) : jurisdictions[i].id = i
    /\ call.op = "add_jurisdiction" =>
          IF call.jurisdiction[1].name = NoStr THEN call.result = None
          ELSE /\ call.result # None
               /\ call.result[1] =
                     [call.jurisdiction[1] EXCEPT !.id = call.result[1].id]
               /\ \E i \in 1..Len(jurisdictions) :
                     jurisdictions[i] = call.result[1]

\* C23 witness: add_jurisdiction of America with the code US, on the default
\* catalog, has left two rows with the code US.
C23_Witness ==
    /\ call.op = "add_jurisdiction"
    /\ call.jurisdiction[1].name = "America"
    /\ call.jurisdiction[1].code = "US"
    /\ Len(jurisdictions) >= 7
    /\ jurisdictions[1].code = "US"
    /\ \E i \in 2..Len(jurisdictions) :
          jurisdictions[i].name = "America" /\ jurisdictions[i].code = "US"

\* C23, the update: add_jurisdiction of Canada, which the catalog holds,
\* with the code US has replaced the code of that row.
C23_WitnessUpdate ==
    /\ call.op = "add_jurisdiction"
    /\ call.jurisdiction[1].name = "Canada"
    /\ Len(jurisdictions) >= 6
    /\ jurisdictions[3].name = "Canada"
    /\ jurisdictions[3].code = "US"
    /\ call.result[1].id = 3

----------------------------------------------------------------------------
(* Claims about apply_special_rules, checked under SpecExpiry *)

\* the rules the store holds for a jurisdiction id that is a row of the catalog
RulesOf(id) ==
    { copyright_rules[i] : i \in { k \in 1..Len(copyright_rules) :
        /\ copyright_rules[k].jurisdiction_id = id
        /\ \E n \in 1..Len(jurisdictions) : jurisdictions[n].id = id } }

HasRule(id, rule_type) == \E rule \in RulesOf(id) : rule.rule_type = rule_type

\* rule types are unique per jurisdiction (UNIQUE (jurisdiction_id, rule_type))
TermOf(id, rule_type) ==
    (CHOOSE rule \in RulesOf(id) : rule.rule_type = rule_type).term_years

\* a jurisdiction with a persisted id and a non-empty rule set
HasRuleSet(j) == j.id # NoId /\ RulesOf(j.id) # {}

CreationYearIn(w, from, to) ==
    w.creation_date # None /\ from <= Year(w.creation_date) /\ Year(w.creation_date) <= to

SingleIncAuthor(w) == Len(w.authors) = 1 /\ EndsWith(w.authors[1].name, Suffix_Inc)

US_a(w, j) == CreationYearIn(w, 1, 1922) /\ HasRule(j.id, "published_before_1923")

US_b(w, j) == CreationYearIn(w, 1923, 1977) /\ HasRule(j.id, "published_1923_to_1977")

US_c(w, j) ==
    SingleIncAuthor(w) /\ HasRule(j.id, "corporate_works") /\ w.creation_date # None

\* C24: for a persisted US jurisdiction with a non-empty rule set,
\* apply_special_rules returns the first that applies of (a) creation year
\* before 1923 with a published_before_1923 rule: 1923-01-01; (b) creation
\* year 1923..1977 with a published_1923_to_1977 rule: December 31 of creation
\* year + that rule's term; (c) exactly one author whose name ends with
\* ' Inc.', a corporate_works rule and a creation date: December 31 of creation
\* year + that rule's term; otherwise absent.
C24_USBranchesInOrder ==
    (/\ call.op = "apply_special_rules"
     /\ call.jurisdiction[1].code = "US"
     /\ HasRuleSet(call.jurisdiction[1])) =>
        LET j == call.jurisdiction[1]
        IN call.result =
             IF US_a(work, j) THEN Date(1923, 1, 1)
             ELSE IF US_b(work, j)
             THEN Date(Year(work.creation_date) + TermOf(j.id, "published_1923_to_1977"),
                       12, 31)
             ELSE IF US_c(work, j)
             THEN Date(Year(work.creation_date) + TermOf(j.id, "corporate_works"),
                       12, 31)
             ELSE None

\* C24 witness: a work of 1925 by the single author 'Acme Inc.', under rules
\* with terms 75 (published_1923_to_1977) and 120 (corporate_works): the
\* result is 2000-12-31, not 2045-12-31.
C24_Witness ==
    /\ call.op = "apply_special_rules"
    /\ call.jurisdiction = <<US>>
    /\ SingleIncAuthor(work)
    /\ work.creation_date = Date(1925, 7, 4)
    /\ TermOf(1, "published_1923_to_1977") = 75
    /\ TermOf(1, "corporate_works") = 120
    /\ call.result = Date(2000, 12, 31)

\* C24, branch (c): a work of 1920 by 'Acme Inc.' under rules without
\* published_before_1923 gets the corporate term.
C24_WitnessCorporate ==
    /\ call.op = "apply_special_rules"
    /\ call.jurisdiction = <<US>>
    /\ SingleIncAuthor(work)
    /\ work.creation_date = Date(1920, 3, 1)
    /\ ~HasRule(1, "published_before_1923")
    /\ call.result = Date(2040, 12, 31)

EU_anonymous(w, j) ==
    w.authors = <<>> /\ w.creation_date # None /\ HasRule(j.id, "anonymous_works")

EveryAuthorHasDeathDate(w) ==
    \A i \in 1..Len(w.authors) : w.authors[i].death_date # None

EU_collaborative(w, j) ==
    Len(w.authors) > 1 /\ HasRule(j.id, "collaborative_works")
      /\ EveryAuthorHasDeathDate(w)

\* C25: for a persisted EU jurisdiction with a non-empty rule set,
\* apply_special_rules returns December 31 of creation year + anonymous_works
\* term for a work with zero authors, a creation date and that rule; December
\* 31 of latest death year + collaborative_works term for a work with more
\* than one author, that rule and a death date for every author; and absent
\* otherwise. A multi-author work with an author lacking a death date gets
\* absent, and calculate_expiry then returns the standard result: December 31
\* of the latest known death year + term_years_after_death when a death date
\* is known.
C25_EUBranches ==
    /\ (/\ call.op = "apply_special_rules"
         /\ call.jurisdiction[1].code = "EU"
         /\ HasRuleSet(call.jurisdiction[1])) =>
            LET j == call.jurisdiction[1]
            IN call.result =
                 IF EU_anonymous(work, j)
                 THEN Date(Year(work.creation_date) + TermOf(j.id, "anonymous_works"),
                           12, 31)
                 ELSE IF EU_collaborative(work, j)
                 THEN Date(MaxOf(DeathYears(work.authors))
                             + TermOf(j.id, "collaborative_works"), 12, 31)
                 ELSE None
    /\ (/\ call.op = "calculate_expiry"
         /\ call.jurisdiction # None
         /\ call.jurisdiction[1].code = "EU"
         /\ HasRuleSet(call.jurisdiction[1])
         /\ Len(work.authors) > 1
         /\ ~EveryAuthorHasDeathDate(work)) =>
            /\ apply_special_rules(work, call.jurisdiction[1]) = None
            /\ call.result = calculate_standard_expiry(work, call.jurisdiction)
            /\ DeathYears(work.authors) # {} =>
                  call.result = Date(MaxOf(DeathYears(work.authors))
                                       + call.jurisdiction[1].term_years_after_death,
                                     12, 31)

\* C25 witness: a work of 1950 without authors, anonymous_works term 70:
\* 2020-12-31.
C25_Witness ==
    /\ call.op = "apply_special_rules"
    /\ call.jurisdiction = <<EU>>
    /\ work.authors = <<>>
    /\ work.creation_date = Date(1950, 1, 1)
    /\ TermOf(2, "anonymous_works") = 70
    /\ call.result = Date(2020, 12, 31)

\* C25, the voided branch: two authors, one dead in 1946 and one without a
\* death date; calculate_expiry under EU returns the standard 2016-12-31.
C25_WitnessMissingDeathDate ==
    /\ call.op = "calculate_expiry"
    /\ call.jurisdiction = <<EU>>
    /\ Len(work.authors) = 2
    /\ DeathYears(work.authors) = {1946}
    /\ ~EveryAuthorHasDeathDate(work)
    /\ HasRule(2, "collaborative_works")
    /\ call.result = Date(2016, 12, 31)

\* C25, the collaborative branch: authors dead in 1912 and 1946, term 60:
\* 2006-12-31.
C25_WitnessCollaborative ==
    /\ call.op = "apply_special_rules"
    /\ call.jurisdiction = <<EU>>
    /\ DeathYears(work.authors) = {1912, 1946}
    /\ TermOf(2, "collaborative_works") = 60
    /\ call.result = Date(2006, 12, 31)

GB_crown(w, j) ==
    /\ \E i \in 1..Len(w.authors) : w.authors[i].name = Name_Crown
    /\ w.creation_date # None
    /\ HasRule(j.id, "crown_copyright")

\* no branch of the jurisdiction's code matches the work
NoBranchMatches(w, j) ==
    /\ j.code = "US" => ~(US_a(w, j) \/ US_b(w, j) \/ US_c(w, j))
    /\ j.code = "EU" => ~(EU_anonymous(w, j) \/ EU_collaborative(w, j))
    /\ j.code = "GB" => ~GB_crown(w, j)

NoSpecialRuleApplies(w, j) ==
    \/ j.id = NoId
    \/ RulesOf(j.id) = {}
    \/ j.code \notin {"US", "EU", "GB"}
    \/ NoBranchMatches(w, j)

\* C26: apply_special_rules returns absent whenever the jurisdiction has no
\* persisted id, or the store holds no rules for it, or its code is none of
\* US, EU, GB, or no branch matches, also when has_special_rules is true; and
\* calculate_expiry then returns the standard calculation.
C26_AbsentWithoutApplicableRule ==
    /\ (call.op = "apply_special_rules"
          /\ NoSpecialRuleApplies(work, call.jurisdiction[1])) =>
            call.result = None
    /\ (/\ call.op = "calculate_expiry"
         /\ EffectiveOf(work, call.jurisdiction) # None
         /\ NoSpecialRuleApplies(work, EffectiveOf(work, call.jurisdiction)[1])) =>
            call.result =
              calculate_standard_expiry(work, EffectiveOf(work, call.jurisdiction))

\* C26 witness: a jurisdiction with has_special_rules, the id 4 (which has a
\* crown_copyright rule) and the code UK, a Crown work of 1950:
\* apply_special_rules returns absent.
C26_Witness ==
    /\ call.op = "apply_special_rules"
    /\ call.jurisdiction[1].has_special_rules
    /\ call.jurisdiction[1].code = "UK"
    /\ HasRule(call.jurisdiction[1].id, "crown_copyright")
    /\ \E i \in 1..Len(work.authors) : work.authors[i].name = Name_Crown
    /\ work.creation_date = Date(1950, 1, 1)
    /\ call.result = None

\* C26, no id: US with has_special_rules but no id, a work of 1920 by an
\* author dead in 1912; calculate_expiry returns the standard 1982-12-31.
C26_WitnessNoId ==
    /\ call.op = "calculate_expiry"
    /\ call.jurisdiction # None
    /\ call.jurisdiction[1].id = NoId
    /\ call.jurisdiction[1].code = "US"
    /\ call.jurisdiction[1].has_special_rules
    /\ work.primary_jurisdiction = None
    /\ work.creation_date = Date(1920, 3, 1)
    /\ DeathYears(work.authors) = {1912}
    /\ call.result = Date(1982, 12, 31)

\* C26, no rules: Great Britain under a rule table without any rule for it.
C26_WitnessNoRules ==
    /\ call.op = "apply_special_rules"
    /\ call.jurisdiction = <<GB>>
    /\ RulesOf(4) = {}
    /\ \E i \in 1..Len(work.authors) : work.authors[i].name = Name_Crown
    /\ work.creation_date # None
    /\ call.result = None

----------------------------------------------------------------------------
(* Claims about the reach of the historical fallback, checked under SpecStatus *)

\* C27: when determine_status has no cached value to return, it returns
\* 'Unknown' if and only if calculate_expiry(work, jurisdiction) is absent; an
\* absent expiry implies that the work has no creation date, so the pre-1875
\* and the US pre-1927 branches never decide the result.
C27_UnknownIffNoExpiry ==
    (call.op = "determine_status" /\ ~HasCachedValue(work, call.jurisdiction)) =>
        LET expiry_date == calculate_expiry(work, call.jurisdiction)
        IN /\ call.result = "Unknown" <=> expiry_date = None
           /\ expiry_date = None => work.creation_date = None
           /\ expiry_date # None =>
                 call.result = IF DateLE(expiry_date, TodayOf(call.current_date))
                               THEN "Public Domain" ELSE "Copyrighted"

\* C27 witness: a work of 1870 whose only author has no death date, nothing
\* cached, no jurisdiction, on 1982-12-31: the expiry 1965-12-31 is computed
\* from the creation date and decides 'Public Domain'; the pre-1875 branch is
\* not reached.
C27_Witness ==
    /\ call.op = "determine_status"
    /\ call.jurisdiction = None
    /\ call.current_date = Date(1982, 12, 31)
    /\ ~HasCachedValue(work, call.jurisdiction)
    /\ work.primary_jurisdiction = None
    /\ Len(work.authors) = 1
    /\ DeathYears(work.authors) = {}
    /\ work.creation_date = Date(1870, 5, 1)
    /\ calculate_expiry(work, None) = Date(1965, 12, 31)
    /\ call.result = "Public Domain"

\* C27, a work of 1925 under US rules with an author without a death date: the
\* expiry 2020-12-31 decides 'Copyrighted' on 1982-12-31, where the US
\* pre-1927 branch would have said 'Public Domain'.
C27_WitnessUS ==
    /\ call.op = "determine_status"
    /\ call.jurisdiction = <<US>>
    /\ call.current_date = Date(1982, 12, 31)
    /\ ~HasCachedValue(work, call.jurisdiction)
    /\ DeathYears(work.authors) = {}
    /\ work.creation_date = Date(1925, 7, 4)
    /\ calculate_expiry(work, <<US>>) = Date(2020, 12, 31)
    /\ call.result = "Copyrighted"

----------------------------------------------------------------------------
(* Claims about the default fields of a work, checked under Spec *)

\* the status an expiry yields at the current date
StatusAt(expiry_date, today) ==
    IF expiry_date = None THEN "Unknown"
    ELSE IF DateLE(expiry_date, today) THEN "Public Domain"
    ELSE "Copyrighted"

\* an update_work_status call on a work that entered with no expiry and the
\* status 'Unknown'
UpdatedFromScratch ==
    /\ call.op = "update_work_status"
    /\ call.before.copyright_expiry_date = None
    /\ call.before.status = "Unknown"

\* C28 as stated: after update_work_status on a work that entered with
\* copyright_expiry_date unset and status 'Unknown', if primary_jurisdiction is
\* set on return then copyright_expiry_date equals
\* calculate_expiry(work, work.primary_jurisdiction) and status is the status
\* that expiry yields at the current date, also when primary_jurisdiction was
\* assigned during that call.
C28_DefaultsAgreeWithPrimary ==
    (UpdatedFromScratch /\ work.primary_jurisdiction # None) =>
        LET expiry_date == calculate_expiry(work, work.primary_jurisdiction)
        IN /\ work.copyright_expiry_date = expiry_date
           /\ work.status = StatusAt(expiry_date, get_current_date)

\* C28: after update_work_status on a work that entered with
\* copyright_expiry_date unset and status 'Unknown', the default fields agree
\* with the primary jurisdiction the work entered with: copyright_expiry_date
\* equals calculate_expiry under that jurisdiction (under no jurisdiction if
\* the work entered without one) and status is the status that expiry yields
\* at the current date; a primary jurisdiction assigned during the call has
\* no part in them.
C28_DefaultsAgreeWithPrimaryOnEntry ==
    UpdatedFromScratch =>
        LET expiry_date == calculate_expiry(call.before, call.before.primary_jurisdiction)
        IN /\ work.copyright_expiry_date = expiry_date
           /\ work.status = StatusAt(expiry_date, get_current_date)
           /\ call.before.primary_jurisdiction # None =>
                 /\ work.primary_jurisdiction = call.before.primary_jurisdiction
                 /\ expiry_date = calculate_expiry(work, work.primary_jurisdiction)

\* C28 witness: a work of 1920 by an author of nationality US without a death
\* date, entering without primary jurisdiction, updated on 1982-12-31: the
\* call assigns the United States, whose rules give 1923-01-01 and 'Public
\* Domain', and leaves 2015-12-31 and 'Copyrighted' in the default fields.
C28_Witness ==
    /\ UpdatedFromScratch
    /\ get_current_date = Date(1982, 12, 31)
    /\ call.before.primary_jurisdiction = None
    /\ work.primary_jurisdiction # None
    /\ work.primary_jurisdiction[1].name = "United States"
    /\ work.creation_date = Date(1920, 3, 1)
    /\ calculate_expiry(work, work.primary_jurisdiction) = Date(1923, 1, 1)
    /\ work.copyright_expiry_date = Date(2015, 12, 31)
    /\ work.status = "Copyrighted"

\* C28, a work that entered with the United States as primary jurisdiction:
\* the default fields are those of the US rules.
C28_WitnessPrimaryOnEntry ==
    /\ UpdatedFromScratch
    /\ call.before.primary_jurisdiction = <<US>>
    /\ work.creation_date = Date(1920, 3, 1)
    /\ work.copyright_expiry_date = Date(1923, 1, 1)
    /\ work.status = "Public Domain"

----------------------------------------------------------------------------
(* Claims about cached statuses over time, checked under SpecSticky *)

CatalogCodes == CodesOf(jurisdictions)

StickyStep ==
    /\ work.status # "Unknown" => work'.status = work.status
    /\ \A code \in DOMAIN work.status_by_jurisdiction :
          code \in CatalogCodes =>
              /\ code \in DOMAIN work'.status_by_jurisdiction
              /\ work'.status_by_jurisdiction[code] = work.status_by_jurisdiction[code]
    /\ call'.op = "determine_status" =>
          /\ (call'.jurisdiction = None /\ work.status # "Unknown") =>
                call'.result = work.status
          /\ (call'.jurisdiction # None
                /\ call'.jurisdiction[1].code \in DOMAIN work.status_by_jurisdiction) =>
                call'.result = work.status_by_jurisdiction[call'.jurisdiction[1].code]
    /\ call'.op = "calculate_multi_jurisdiction_status" =>
          \A code \in DOMAIN call'.result :
              code \in DOMAIN work.status_by_jurisdiction =>
                  call'.result[code] = work.status_by_jurisdiction[code]

\* C29: once work.status is not 'Unknown', or work.status_by_jurisdiction has
\* an entry for a code of the catalog, no update_work_status, determine_status
\* or calculate_multi_jurisdiction_status call changes that value or returns
\* another, whatever the current date is and however authors and dates of the
\* work have been edited.
C29_CachedStatusesAreSticky == [][StickyStep]_vars

\* C29 witness: the work, 'Copyrighted' under the expiry 2016-12-31, has been
\* updated again on 2040-01-01 and is still 'Copyrighted', in Canada too.
C29_Witness ==
    /\ call.op = "update_work_status"
    /\ get_current_date = Date(2040, 1, 1)
    /\ call.before.status = "Copyrighted"
    /\ call.before.copyright_expiry_date = Date(2016, 12, 31)
    /\ calculate_expiry(work, None) = Date(2016, 12, 31)
    /\ work.status = "Copyrighted"
    /\ "CA" \in DOMAIN work.status_by_jurisdiction
    /\ work.status_by_jurisdiction["CA"] = "Copyrighted"
    /\ calculate_expiry(work, <<CA>>) = Date(1996, 12, 31)

\* C29, an entry whose code left the catalog: after Canada was stored under
\* the code XX, an update has dropped the entry for CA.
C29_WitnessCodeLeftCatalog ==
    /\ call.op = "update_work_status"
    /\ "CA" \in DOMAIN call.before.status_by_jurisdiction
    /\ "CA" \notin CatalogCodes
    /\ "CA" \notin DOMAIN work.status_by_jurisdiction
    /\ "XX" \in DOMAIN work.status_by_jurisdiction

\* C29, after an edit: the work was 'Public Domain' by its authors, the
\* authors were removed, and the update keeps 'Public Domain' although no
\* expiry can be computed any more.
C29_WitnessAfterEdit ==
    /\ call.op = "update_work_status"
    /\ work.authors = <<>>
    /\ work.creation_date = None
    /\ calculate_expiry(work, <<US>>) = None
    /\ work.status = "Public Domain"
    /\ work.copyright_expiry_date # None

----------------------------------------------------------------------------
(* Claims about the rows of work_jurisdiction_status, checked under SpecRows *)

\* the status of the row is the one its expiry yields at the current date
SelfConsistent(row) ==
    row.status = StatusAt(_parse_db_date(row.expiry_date), get_current_date)

\* the rows the last call has written: those keyed by the work and by a
\* jurisdiction of the supplied list that has a code and an id
RowsWritten ==
    LET supplied == SuppliedTo(call.jurisdiction)
    IN { r \in 1..Len(work_jurisdiction_status) :
           \E i \in WrittenAt(work, supplied) :
               HasStatusKey(work_jurisdiction_status[r], work.id, supplied[i].id) }

\* C30 as stated: every row calculate_multi_jurisdiction_status writes is
\* self-consistent at the current date of the call: 'Unknown' iff the written
\* expiry is absent, 'Public Domain' iff it is <= the current date and
\* 'Copyrighted' iff it is later, also for a work that carries
\* status_by_jurisdiction entries.
C30_RowsSelfConsistent ==
    call.op = "calculate_multi_jurisdiction_status" =>
        \A r \in RowsWritten : SelfConsistent(work_jurisdiction_status[r])

\* C30: a row calculate_multi_jurisdiction_status writes holds the expiry
\* calculate_expiry gives for its jurisdiction; its status is the entry of
\* work.status_by_jurisdiction for the jurisdiction's code where the work
\* carries one, and otherwise the status the written expiry yields at the
\* current date of the call.
C30_FreshRowsSelfConsistent ==
    call.op = "calculate_multi_jurisdiction_status" =>
        LET supplied == SuppliedTo(call.jurisdiction)
            table == work_jurisdiction_status
        IN \A i \in WrittenAt(work, supplied) :
              \A r \in RowsWithKey(table, work.id, supplied[i].id) :
                  /\ _parse_db_date(table[r].expiry_date) =
                        calculate_expiry(work, <<supplied[i]>>)
                  /\ IF supplied[i].code \in DOMAIN work.status_by_jurisdiction
                     THEN table[r].status =
                             work.status_by_jurisdiction[supplied[i].code]
                     ELSE SelfConsistent(table[r])

\* C30 witness: the work carries 'Copyrighted' for US and nothing for GB; on
\* 2025-04-30 the call over both writes ('Copyrighted', 2016-12-31) for the
\* United States and ('Public Domain', 2016-12-31) for the United Kingdom.
C30_Witness ==
    /\ call.op = "calculate_multi_jurisdiction_status"
    /\ call.jurisdiction = <<US, GB>>
    /\ get_current_date = Date(2025, 4, 30)
    /\ DOMAIN work.status_by_jurisdiction = {"US"}
    /\ \E r \in RowsWritten :
          work_jurisdiction_status[r] =
              StatusRow(7, US.id, "Copyrighted", isoformat(Date(2016, 12, 31)))
    /\ \E r \in RowsWritten :
          work_jurisdiction_status[r] =
              StatusRow(7, GB.id, "Public Domain", isoformat(Date(2016, 12, 31)))

\* C30, an entry that update_work_status left: updated on 1982-12-31, the
\* work is 'Copyrighted' in Canada; the call on 2040-01-01 writes
\* 'Copyrighted' beside the expiry 1996-12-31.
C30_WitnessAfterUpdate ==
    /\ call.op = "calculate_multi_jurisdiction_status"
    /\ get_current_date = Date(2040, 1, 1)
    /\ call.before # <<>>
    /\ \E r \in RowsWritten :
          work_jurisdiction_status[r] =
              StatusRow(7, CA.id, "Copyrighted", isoformat(Date(1996, 12, 31)))

\* C30, a work without entries: every row written is self-consistent, and
\* one of them is 'Public Domain'.
C30_WitnessNoEntries ==
    /\ call.op = "calculate_multi_jurisdiction_status"
    /\ DOMAIN work.status_by_jurisdiction = {}
    /\ RowsWritten # {}
    /\ \A r \in RowsWritten : SelfConsistent(work_jurisdiction_status[r])
    /\ \E r \in RowsWritten : work_jurisdiction_status[r].status = "Public Domain"

====
